---------------------------- MODULE Spec2Model ----------------------------
(***************************************************************************)
(* A model of the Showrunner model gateway (src/services/modelGateway.ts), *)
(* of the model registry and the scene lists kept by the store             *)
(* (src/store/showrunnerStore.ts) and of Write All                         *)
(* (src/pages/Scriptwriter.tsx).                                           *)
(*                                                                         *)
(* The specifications share the variables:                                 *)
(*   SpecRegistry    fetchModels / addCustomModel / removeCustomModel      *)
(*   SpecPayload     constructPayload, a pure function                     *)
(*   SpecGateway     executeGenericRequest and pollForCompletion           *)
(*   SpecStatusDown  the same, the status endpoint never answering 2xx     *)
(*   SpecScripted    the same, the status endpoint following a script      *)
(*   SpecFacade      generateText and generateVisual                       *)
(*   SpecExtract     resolvePath, a pure function                          *)
(*   SpecCredential  two generic calls, updateApiKey between their steps   *)
(*   SpecTemplating  executeGenericRequest over composed templates         *)
(*   SpecKeys        updateApiKey and the keys generateText reads          *)
(*   SpecScenes      the scene operations of one item, undo and redo       *)
(*   SpecLongSession the same, more recorded actions than are kept         *)
(*   SpecWriteAll    handleWriteAllScenes and toggleSceneContentLock       *)
(* Each leaves the other parts' variables at their idle values.            *)
(***************************************************************************)
EXTENDS Integers, Sequences, FiniteSets, TLC

VARIABLES
    \* the store's model registry
    availableModels,   \* state.availableModels
    customModels,      \* state.customModels (mirrored in localStorage 'custom_models')
    inflight,          \* fetchModels calls suspended in `await fetchRemoteDefinitions()`
    fetched,           \* what the last completed fetchRemoteDefinitions() gave its caller
    outcome,           \* what the remote did to that fetch
    lastOp,            \* the store operation that made the last step
    fetchesCompleted,  \* fetchModels calls that have run to their set()
    fallbackModels,    \* the array ModelGateway.LOCAL_FALLBACK_MODELS holds, as it is now
    lastRemoved,       \* the id of the custom model removed last and not added since, "" for none
    \* constructPayload
    mapping,           \* the template handed to constructPayload
    inputs,            \* the inputs handed to constructPayload
    payload,           \* what constructPayload returned
    \* the gateway's generic calls
    calls,             \* call id -> the frame of one executeGenericRequest
    localStorage,      \* the credential store: key -> string
    generations,       \* call id -> the frame of one generateText / generateVisual
    apiKeys,           \* state.apiKeys of the store: provider -> string
    \* resolvePath
    responseObject,    \* the object handed to resolvePath
    pathExpression,    \* the path handed to resolvePath
    extracted,         \* what resolvePath returned
    \* one episode's or act's scene list
    scenes,            \* item.scenes
    sceneHistory,      \* item.sceneHistory, newest entry first
    sceneRedoStack,    \* item.sceneRedoStack, next redo first (<<>> for undefined)
    nextSceneId,       \* the id the next uuidv4() of createScene gives
    initialScenes,     \* the scene list before the first recorded action
    trail,             \* the last two scene operations, newest first
    sceneSteps,        \* scene operations made so far
    writing            \* the frame of handleWriteAllScenes

registryVars == <<availableModels, customModels, inflight, fetched, outcome,
                  lastOp, fetchesCompleted, fallbackModels,
                  lastRemoved>>
payloadVars == <<mapping, inputs, payload>>
gatewayVars == <<calls, localStorage, generations, apiKeys>>
extractVars == <<responseObject, pathExpression, extracted>>
sceneVars == <<scenes, sceneHistory, sceneRedoStack, nextSceneId, initialScenes,
               trail, sceneSteps, writing>>
vars == <<registryVars, payloadVars, gatewayVars, extractVars, sceneVars>>

\* A value no program value equals: JavaScript's undefined / a variable not yet set.
Undefined == [t |-> "undefined"]

(***************************************************************************)
(* Bounds of the model                                                     *)
(***************************************************************************)
MaxRemote == 2      \* longest list the remote document carries
MaxCustom == 2      \* longest persisted custom list at start-up
MaxInflight == 2    \* fetchModels calls in flight at once

(***************************************************************************)
(* Sequence helpers                                                        *)
(***************************************************************************)
SeqsUpTo(S, n) == UNION {[1..k -> S] : k \in 0..n}

\* Array.prototype.filter(m => m.id !== id)
WithoutId(s, id) == SelectSeq(s, LAMBDA m : m.id # id)

\* Array.prototype.findIndex on the id: the first position, 0 for JavaScript's -1
findIndex(s, id) ==
    IF \E i \in 1..Len(s) : s[i].id = id
    THEN CHOOSE i \in 1..Len(s) : s[i].id = id /\ \A j \in 1..(i - 1) : s[j].id # id
    ELSE 0

DistinctIds(s) == \A i, j \in 1..Len(s) : s[i].id = s[j].id => i = j

(***************************************************************************)
(* Model definitions                                                       *)
(***************************************************************************)
LOCAL_FALLBACK_MODELS == <<
    [id |-> "gemini-2.5-flash", name |-> "Gemini 2.5 Flash",
     provider |-> "google_native", family |-> "text",
     contextWindow |-> 1000000, isDefault |-> TRUE],
    [id |-> "gemini-3-pro-preview", name |-> "Gemini 3.0 Pro",
     provider |-> "google_native", family |-> "text", contextWindow |-> 2000000],
    [id |-> "gemini-2.5-flash-image", name |-> "Gemini 2.5 Flash (Image)",
     provider |-> "google_native", family |-> "image", contextWindow |-> 0],
    [id |-> "gemini-3-pro-image-preview", name |-> "Gemini 3.0 Pro (Image)",
     provider |-> "google_native", family |-> "image", contextWindow |-> 0],
    [id |-> "veo-3.1", name |-> "Veo 3.1 (Video)",
     provider |-> "google_native", family |-> "video", contextWindow |-> 0] >>

\* What the remote document may list: ids are the remote's to choose, and
\* nothing in the code makes them distinct.
RemoteModels ==
    {[id |-> i, name |-> "remote " \o i, provider |-> "kie", family |-> "text",
      contextWindow |-> 0] : i \in {"m1", "m2"}}

\* What the settings page may hand to addCustomModel; "gemini-2.5-flash"
\* overrides a built-in id, "m1" a remote one, "m3" is new.
CustomModelInputs ==
    {[id |-> i, name |-> n, provider |-> "openai_compatible", family |-> "text",
      contextWindow |-> 0] :
        i \in {"m1", "m3", "gemini-2.5-flash"}, n \in {"custom A"}}
    \cup {[id |-> "m1", name |-> "custom B", provider |-> "openai_compatible",
           family |-> "text", contextWindow |-> 0]}

(***************************************************************************)
(* fetchRemoteDefinitions                                                  *)
(***************************************************************************)
\* What the remote can do to `fetch(url)` followed by `response.json()`:
\*   fetch   "throws" (network error) or "resolves"
\*   ok      response.ok
\*   json    response.json() "throws", or parses to "null" or to an "object"
\*   models  data.models: Undefined, a non-array value, or an array of models
RemoteDocuments ==
    {Undefined, [t |-> "str", v |-> "none"], [t |-> "obj"]}
    \cup {[t |-> "arr", v |-> l] : l \in SeqsUpTo(RemoteModels, MaxRemote)}

RemoteOutcomes ==
    {[fetch |-> "throws", ok |-> FALSE, json |-> "throws", models |-> Undefined],
     [fetch |-> "resolves", ok |-> TRUE, json |-> "throws", models |-> Undefined],
     [fetch |-> "resolves", ok |-> TRUE, json |-> "null", models |-> Undefined]}
    \cup {[fetch |-> "resolves", ok |-> FALSE, json |-> "object", models |-> d] :
             d \in {Undefined} \cup {[t |-> "arr", v |-> <<m>>] : m \in RemoteModels}}
    \cup {[fetch |-> "resolves", ok |-> TRUE, json |-> "object", models |-> d] :
             d \in RemoteDocuments}

Returned(v) == [threw |-> FALSE, value |-> v]
Thrown == [threw |-> TRUE, value |-> Undefined]

\* The body of the try block: the list it returns, or Thrown.
FetchTryBody(o) ==
    IF o.fetch = "throws" THEN Thrown
    ELSE IF ~o.ok THEN Returned(fallbackModels)
    ELSE IF o.json = "throws" THEN Thrown
    ELSE IF o.json = "null" THEN Thrown              \* data.models on null: TypeError
    ELSE IF o.models.t = "arr" THEN Returned(o.models.v)
    ELSE Returned(fallbackModels)

FetchNoCatch(o) == FetchTryBody(o)

\* try { ... } catch (error) { return LOCAL_FALLBACK_MODELS }
fetchRemoteDefinitions(o) ==
    IF FetchTryBody(o).threw THEN Returned(fallbackModels)
    ELSE FetchTryBody(o)

(***************************************************************************)
(* The store's registry operations                                         *)
(***************************************************************************)
\* fetchModels' loop body for one custom entry.
MergeOne(merged, custom) ==
    LET index == findIndex(merged, custom.id)
    IN  IF index # 0 THEN [merged EXCEPT ![index] = custom]
        ELSE Append(merged, custom)

\* for (const custom of customModels) { ... } over mergedModels = [...remoteModels]
RECURSIVE MergeModels(_, _)
MergeModels(merged, customs) ==
    IF customs = <<>> THEN merged
    ELSE MergeModels(MergeOne(merged, Head(customs)), Tail(customs))

\* The persisted custom lists: whatever addCustomModel / removeCustomModel
\* wrote to localStorage 'custom_models' in earlier sessions.
PersistedCustomLists ==
    {l \in SeqsUpTo(CustomModelInputs, MaxCustom) : DistinctIds(l)}

InitRegistryVars ==
    /\ availableModels = <<>>
    /\ customModels \in PersistedCustomLists
    /\ inflight = 0
    /\ fetched = Undefined
    /\ outcome = Undefined
    /\ lastOp = "init"
    /\ fetchesCompleted = 0
    /\ fallbackModels = LOCAL_FALLBACK_MODELS
    /\ lastRemoved = ""

IdleRegistryVars ==
    /\ availableModels = <<>>
    /\ customModels = <<>>
    /\ inflight = 0
    /\ fetched = Undefined
    /\ outcome = Undefined
    /\ lastOp = "init"
    /\ fetchesCompleted = 0
    /\ fallbackModels = LOCAL_FALLBACK_MODELS
    /\ lastRemoved = ""

\* fetchModels up to its await: the request is on its way.
FetchModelsCall ==
    /\ inflight < MaxInflight
    /\ inflight' = inflight + 1
    /\ lastOp' = "fetchModelsCall"
    /\ UNCHANGED <<availableModels, customModels, fetched, outcome, fetchesCompleted,
                   fallbackModels, lastRemoved>>

FetchModelsResumeInPlace(o) ==
    LET r == fetchRemoteDefinitions(o)
        isFallback == ~(o.fetch = "resolves" /\ o.ok /\ o.json = "object"
                            /\ o.models.t = "arr")
    IN  /\ inflight > 0
        /\ inflight' = inflight - 1
        /\ outcome' = o
        /\ fetched' = r
        /\ lastOp' = "fetchModels"
        /\ availableModels' = MergeModels(r.value, customModels)
        /\ fetchesCompleted' = IF fetchesCompleted = 0 THEN 1 ELSE fetchesCompleted
        /\ fallbackModels' = IF isFallback THEN MergeModels(r.value, customModels)
                             ELSE fallbackModels
        /\ UNCHANGED <<customModels, lastRemoved>>
\* fetchModels from the await on: the remote answers with o, and the rest
\* of the function runs without another await. The merge works on
\* [...remoteModels], a new array, so the array the gateway returned (the
\* fallback array itself on the fallback paths) is left as it is.
FetchModelsResume(o) ==
    LET r == fetchRemoteDefinitions(o)
    IN  /\ inflight > 0
        /\ inflight' = inflight - 1
        /\ outcome' = o
        /\ fetched' = r
        /\ lastOp' = "fetchModels"
        /\ IF r.threw
           THEN UNCHANGED <<availableModels, fetchesCompleted>>
           ELSE /\ availableModels' = MergeModels(r.value, customModels)
                /\ fetchesCompleted' = IF fetchesCompleted = 0 THEN 1 ELSE fetchesCompleted
        /\ UNCHANGED <<customModels, fallbackModels, lastRemoved>>

addCustomModel(model) ==
    /\ customModels' = Append(WithoutId(customModels, model.id), model)
    /\ availableModels' = Append(WithoutId(availableModels, model.id), model)
    /\ lastOp' = "addCustomModel"
    /\ lastRemoved' = IF model.id = lastRemoved THEN "" ELSE lastRemoved
    /\ UNCHANGED <<inflight, fetched, outcome, fetchesCompleted, fallbackModels>>

removeCustomModelFromAvailableOnly(id) ==
    /\ inflight < MaxInflight
    /\ customModels' = customModels
    /\ availableModels' = SelectSeq(availableModels, LAMBDA m : m.id # id)
    /\ inflight' = inflight + 1
    /\ lastOp' = "removeCustomModel"
    /\ lastRemoved' = IF \E j \in 1..Len(customModels) : customModels[j].id = id
                      THEN id ELSE lastRemoved
    /\ UNCHANGED <<fetched, outcome, fetchesCompleted, fallbackModels>>
\* The set() of removeCustomModel and the fetchModels() it then starts.
removeCustomModel(id) ==
    /\ inflight < MaxInflight
    /\ customModels' = WithoutId(customModels, id)
    /\ availableModels' = WithoutId(availableModels, id)
    /\ inflight' = inflight + 1
    /\ lastOp' = "removeCustomModel"
    /\ lastRemoved' = IF \E j \in 1..Len(customModels) : customModels[j].id = id
                      THEN id ELSE lastRemoved
    /\ UNCHANGED <<fetched, outcome, fetchesCompleted, fallbackModels>>

IdlePayloadVars == mapping = Undefined /\ inputs = Undefined /\ payload = Undefined
IdleGatewayVars ==
    /\ calls = <<>> /\ localStorage = <<>> /\ generations = <<>>
    /\ apiKeys = [p \in {"google_native", "kie", "wavespeed", "openai_compatible"} |-> <<>>]
IdleExtractVars ==
    responseObject = Undefined /\ pathExpression = Undefined /\ extracted = Undefined
\* handleWriteAllScenes not called
IdleWriting == [pc |-> "idle", scenesToWrite |-> <<>>, i |-> 0, writingError |-> ""]
IdleSceneVars ==
    /\ scenes = <<>> /\ sceneHistory = <<>> /\ sceneRedoStack = <<>>
    /\ nextSceneId = 1 /\ initialScenes = <<>> /\ trail = <<>>
    /\ sceneSteps = 0 /\ writing = IdleWriting

InitRegistry == InitRegistryVars /\ IdlePayloadVars /\ IdleGatewayVars /\ IdleExtractVars /\ IdleSceneVars

NextRegistry ==
    \/ FetchModelsCall /\ UNCHANGED <<payloadVars, gatewayVars, extractVars, sceneVars>>
    \/ (\E o \in RemoteOutcomes : FetchModelsResume(o)) /\ UNCHANGED <<payloadVars, gatewayVars, extractVars, sceneVars>>
    \/ (\E model \in CustomModelInputs : addCustomModel(model))
          /\ UNCHANGED <<payloadVars, gatewayVars, extractVars, sceneVars>>
    \/ (\E id \in {"m1", "m3", "gemini-2.5-flash", "m2"} : removeCustomModel(id))
          /\ UNCHANGED <<payloadVars, gatewayVars, extractVars, sceneVars>>

SpecRegistry == InitRegistry /\ [][NextRegistry]_vars

(***************************************************************************)
(* JSON values and strings                                                 *)
(*                                                                         *)
(* A JavaScript string is a sequence of one-character strings, so that     *)
(* startsWith, endsWith, slice, toLowerCase and the regular expressions    *)
(* are computed character by character.  A JSON value is tagged by its     *)
(* type; an object is a function from keys (strings) to values.            *)
(***************************************************************************)
Str(s) == [t |-> "str", v |-> s]
Num(n) == [t |-> "num", v |-> n]
Bool(b) == [t |-> "bool", v |-> b]
Null == [t |-> "null"]
Arr(a) == [t |-> "arr", v |-> a]
Obj(o) == [t |-> "obj", v |-> o]

\* String.prototype.startsWith / endsWith
startsWith(s, p) == Len(s) >= Len(p) /\ SubSeq(s, 1, Len(p)) = p
endsWith(s, p) == Len(s) >= Len(p) /\ SubSeq(s, Len(s) - Len(p) + 1, Len(s)) = p

\* String.prototype.slice(from, -back): from the 0-based index `from` to
\* `back` characters before the end; empty when the two cross.
sliceFromTo(s, from, back) ==
    LET start == IF from < Len(s) THEN from ELSE Len(s)
        stop == IF Len(s) - back > 0 THEN Len(s) - back ELSE 0
    IN  IF start >= stop THEN <<>> ELSE SubSeq(s, start + 1, stop)

\* obj[key] on a plain object: Undefined for a key it does not have.
Prop(o, key) == IF key \in DOMAIN o THEN o[key] ELSE Undefined

\* JavaScript truthiness of a JSON value.
Truthy(x) ==
    CASE x.t = "undefined" -> FALSE
      [] x.t = "null" -> FALSE
      [] x.t = "bool" -> x.v
      [] x.t = "num" -> x.v # 0
      [] x.t = "str" -> x.v # <<>>
      [] OTHER -> TRUE

OPEN == <<"{", "{">>
CLOSE == <<"}", "}">>

(***************************************************************************)
(* constructPayload                                                        *)
(***************************************************************************)
IsPlaceholderByPrefix(s) == startsWith(s, OPEN)

\* mapping.startsWith('{{') && mapping.endsWith('}}')
IsPlaceholder(s) == startsWith(s, OPEN) /\ endsWith(s, CLOSE)

SubstituteIfTruthy(m, ins) ==
    LET key == sliceFromTo(m.v, 2, 2)
    IN  IF Truthy(Prop(ins, key)) THEN Prop(ins, key) ELSE m

\* const key = mapping.slice(2, -2);
\* return inputs[key] !== undefined ? inputs[key] : mapping;
Substitute(m, ins) ==
    LET key == sliceFromTo(m.v, 2, 2)
    IN  IF Prop(ins, key) # Undefined THEN Prop(ins, key) ELSE m

RECURSIVE constructPayloadTrailing(_, _)
constructPayloadTrailing(m, ins) ==
    IF m.t = "str"
    THEN LET opens == {k \in 1..(Len(m.v) - 3) : SubSeq(m.v, k, k + 1) = OPEN}
             last == CHOOSE k \in opens : \A j \in opens : j <= k
             key == SubSeq(m.v, last + 2, Len(m.v) - 2)
         IN  IF endsWith(m.v, CLOSE) /\ opens # {} /\ Prop(ins, key) # Undefined
             THEN Prop(ins, key) ELSE m
    ELSE IF m.t = "arr"
    THEN Arr([i \in 1..Len(m.v) |-> constructPayloadTrailing(m.v[i], ins)])
    ELSE IF m.t = "obj"
    THEN Obj([k \in DOMAIN m.v |-> constructPayloadTrailing(m.v[k], ins)])
    ELSE m
RECURSIVE constructPayload(_, _)
constructPayload(m, ins) ==
    IF m.t = "str"
    THEN IF IsPlaceholder(m.v) THEN Substitute(m, ins) ELSE m
    ELSE IF m.t = "arr"
    THEN Arr([i \in 1..Len(m.v) |-> constructPayload(m.v[i], ins)])
    ELSE IF m.t = "obj"
    THEN Obj([k \in DOMAIN m.v |-> constructPayload(m.v[k], ins)])
    ELSE m

\* The templates and inputs constructPayload is applied to.
MaxStrLen == 5      \* longest string template; "{{x}}" has 5 characters
MaxDepth == 2       \* deepest nesting of arrays and objects

TemplateChars == {"{", "}", "x", "y"}
TemplateStrings == {Str(s) : s \in SeqsUpTo(TemplateChars, MaxStrLen)}

NestLeaves ==
    {Str(OPEN \o <<"x">> \o CLOSE), Str(OPEN \o <<"y">> \o CLOSE), Str(<<"x">>),
     Str(<<"y">> \o OPEN \o <<"x">> \o CLOSE), Num(1), Bool(TRUE), Null, Arr(<<>>)}

RECURSIVE Nested(_)
Nested(d) ==
    IF d = 0 THEN NestLeaves
    ELSE LET E == Nested(d - 1)
             L == {Str(OPEN \o <<"x">> \o CLOSE), Num(1)}
         IN  E \cup {Arr(<<e>>) : e \in E}
               \cup {Arr(<<l, e>>) : l \in L, e \in E}
               \cup {Obj(<<"a">> :> e) : e \in E}
               \cup {Obj(<<"a">> :> e @@ <<"b">> :> l) : l \in L, e \in E}

Templates == TemplateStrings \cup Nested(MaxDepth)

\* inputs: x defined (with falsy and truthy values of every JSON type) or
\* not, an own property holding undefined, and the empty name.
InputSamples ==
    {<<>>}
    \cup {<<"x">> :> v :
            v \in {Str(<<>>), Num(0), Bool(FALSE), Null, Undefined,
                   Str(<<"y">>), Arr(<<Num(1)>>)}}
    \cup {<<>> :> Str(<<"x">>)}
    \cup {<<"x">> :> Num(2) @@ <<"y">> :> Bool(TRUE)}

InitPayloadVars ==
    /\ mapping \in Templates
    /\ inputs \in InputSamples
    /\ payload = Undefined

\* One call of constructPayload(mapping, inputs).
ConstructPayloadCall ==
    /\ payload = Undefined
    /\ payload' = constructPayload(mapping, inputs)
    /\ UNCHANGED <<mapping, inputs>>

InitPayload == IdleRegistryVars /\ InitPayloadVars /\ IdleGatewayVars /\ IdleExtractVars /\ IdleSceneVars

NextPayload == ConstructPayloadCall /\ UNCHANGED <<registryVars, gatewayVars, extractVars, sceneVars>>

SpecPayload == InitPayload /\ [][NextPayload]_vars

(***************************************************************************)
(* Strings of the gateway: toLowerCase, replace, lodash get                *)
(***************************************************************************)
UPPER == <<"A", "B", "C", "D", "E", "F", "G", "H", "I", "J", "K", "L", "M",
           "N", "O", "P", "Q", "R", "S", "T", "U", "V", "W", "X", "Y", "Z">>
LOWER == <<"a", "b", "c", "d", "e", "f", "g", "h", "i", "j", "k", "l", "m",
           "n", "o", "p", "q", "r", "s", "t", "u", "v", "w", "x", "y", "z">>
DIGITS == <<"0", "1", "2", "3", "4", "5", "6", "7", "8", "9">>

InSeq(x, s) == \E k \in 1..Len(s) : s[k] = x
IndexIn(x, s) == CHOOSE k \in 1..Len(s) : s[k] = x

\* String.prototype.toLowerCase
toLowerCase(s) ==
    [k \in 1..Len(s) |-> IF InSeq(s[k], UPPER) THEN LOWER[IndexIn(s[k], UPPER)] ELSE s[k]]

\* \w of a regular expression
IsWordChar(ch) == InSeq(ch, UPPER) \/ InSeq(ch, LOWER) \/ InSeq(ch, DIGITS) \/ ch = "_"

\* The first position at which pat occurs in s, 0 when it does not.
indexOf(s, pat) ==
    LET At(k) == k + Len(pat) - 1 <= Len(s) /\ SubSeq(s, k, k + Len(pat) - 1) = pat
    IN  IF \E k \in 1..Len(s) : At(k)
        THEN CHOOSE k \in 1..Len(s) : At(k) /\ \A j \in 1..(k - 1) : ~At(j)
        ELSE 0

\* String.prototype.replace(pat, rep) with a string pattern: the first
\* occurrence only.
replaceFirst(s, pat, rep) ==
    LET k == indexOf(s, pat)
    IN  IF k = 0 THEN s
        ELSE SubSeq(s, 1, k - 1) \o rep \o SubSeq(s, k + Len(pat), Len(s))

\* String(value), for the values a template input can hold.
StringOf(x) ==
    CASE x.t = "str" -> x.v
      [] x.t = "num" -> IF x.v \in 0..9 THEN <<DIGITS[x.v + 1]>> ELSE <<"N">>
      [] x.t = "bool" -> IF x.v THEN <<"t", "r", "u", "e">> ELSE <<"f", "a", "l", "s", "e">>
      [] x.t = "null" -> <<"n", "u", "l", "l">>
      [] OTHER -> <<"[", "o", "b", "j", "e", "c", "t", "]">>

\* The length of the run of word characters of s that starts at position k.
RECURSIVE WordRun(_, _)
WordRun(s, k) ==
    IF k <= Len(s) /\ IsWordChar(s[k]) THEN 1 + WordRun(s, k + 1) ELSE 0

UrlTokenCredentialFirst(key, requestInputs, apiKey) ==
    IF key = <<"k", "e", "y">> /\ Truthy(apiKey) THEN apiKey.v
    ELSE IF Prop(requestInputs, key) # Undefined THEN StringOf(Prop(requestInputs, key))
    ELSE OPEN \o key \o CLOSE
\* The replacement for one {{key}} of the generate URL:
\*   if (requestInputs[key] !== undefined) return String(requestInputs[key]);
\*   if (key === 'key' && apiKey) return apiKey;
\*   return `{{${key}}}`;
UrlToken(key, requestInputs, apiKey) ==
    IF Prop(requestInputs, key) # Undefined THEN StringOf(Prop(requestInputs, key))
    ELSE IF key = <<"k", "e", "y">> /\ Truthy(apiKey) THEN apiKey.v
    ELSE OPEN \o key \o CLOSE

\* url.replace(/\{\{(\w+)\}\}/g, ...) from position k on: a match is "{{",
\* a non-empty maximal run of word characters, "}}"; the scan goes on after
\* the match.
RECURSIVE replaceTokens(_, _, _, _)
replaceTokens(s, k, requestInputs, apiKey) ==
    IF k > Len(s) THEN <<>>
    ELSE LET n == WordRun(s, k + 2)
             hit == /\ k + 1 <= Len(s) /\ SubSeq(s, k, k + 1) = OPEN
                    /\ n > 0
                    /\ k + n + 3 <= Len(s)
                    /\ SubSeq(s, k + 2 + n, k + 3 + n) = CLOSE
         IN  IF hit
             THEN UrlToken(SubSeq(s, k + 2, k + 1 + n), requestInputs, apiKey)
                      \o replaceTokens(s, k + 4 + n, requestInputs, apiKey)
             ELSE <<s[k]>> \o replaceTokens(s, k + 1, requestInputs, apiKey)

\* lodash stringToPath: the keys of a path such as a.b[0].c, in order.
RECURSIVE stringToPath(_)
stringToPath(s) ==
    IF s = <<>> THEN <<>>
    ELSE IF Head(s) = "." \/ Head(s) = "]" THEN stringToPath(Tail(s))
    ELSE IF Head(s) = "["
    THEN LET close == indexOf(s, <<"]">>)
         IN  IF close = 0 THEN stringToPath(Tail(s))
             ELSE <<SubSeq(s, 2, close - 1)>> \o stringToPath(SubSeq(s, close + 1, Len(s)))
    ELSE LET stops == {k \in 1..Len(s) : s[k] \in {".", "[", "]"}}
             stop == IF stops = {} THEN Len(s) + 1
                     ELSE CHOOSE k \in stops : \A j \in stops : k <= j
         IN  <<SubSeq(s, 1, stop - 1)>> \o stringToPath(SubSeq(s, stop, Len(s)))

\* The array index a key denotes, -1 when it is not a run of digits.
RECURSIVE KeyIndex(_)
KeyIndex(key) ==
    IF key = <<>> \/ \E k \in 1..Len(key) : ~InSeq(key[k], DIGITS) THEN -1
    ELSE IF Len(key) = 1 THEN IndexIn(key[1], DIGITS) - 1
    ELSE 10 * KeyIndex(SubSeq(key, 1, Len(key) - 1)) + IndexIn(key[Len(key)], DIGITS) - 1

MemberOneBased(o, key) ==
    CASE o.t = "obj" -> Prop(o.v, key)
      [] o.t = "arr" -> IF KeyIndex(key) >= 1 /\ KeyIndex(key) <= Len(o.v)
                        THEN o.v[KeyIndex(key)] ELSE Undefined
      [] o.t = "str" -> IF KeyIndex(key) >= 1 /\ KeyIndex(key) <= Len(o.v)
                        THEN Str(<<o.v[KeyIndex(key)]>>) ELSE Undefined
      [] OTHER -> Undefined
\* object[key] for one key of the path.
Member(o, key) ==
    CASE o.t = "obj" -> Prop(o.v, key)
      [] o.t = "arr" -> IF KeyIndex(key) >= 0 /\ KeyIndex(key) < Len(o.v)
                        THEN o.v[KeyIndex(key) + 1] ELSE Undefined
      [] o.t = "str" -> IF KeyIndex(key) >= 0 /\ KeyIndex(key) < Len(o.v)
                        THEN Str(<<o.v[KeyIndex(key) + 1]>>) ELSE Undefined
      [] OTHER -> Undefined

\* lodash baseGet: follow the keys while the value is neither null nor undefined.
RECURSIVE baseGet(_, _)
baseGet(o, path) ==
    IF path = <<>> THEN o
    ELSE IF o = Undefined \/ o = Null THEN Undefined
    ELSE baseGet(Member(o, Head(path)), Tail(path))

\* lodash isKey: a plain word, or an own key of the object, is one key.
isKey(path, o) ==
    \/ \A k \in 1..Len(path) : IsWordChar(path[k])
    \/ (o.t = "obj" /\ path \in DOMAIN o.v)

\* resolvePath = lodash get(obj, path)
resolvePath(obj, path) ==
    IF obj = Undefined \/ obj = Null THEN Undefined
    ELSE IF isKey(path, obj) THEN Member(obj, path)
    ELSE IF stringToPath(path) = <<>> THEN Undefined
    ELSE baseGet(obj, stringToPath(path))

(***************************************************************************)
(* The generic provider path: configurations and provider responses        *)
(***************************************************************************)
POLLING_INTERVAL == 2000
MAX_ATTEMPTS == 60

sId == <<"i", "d">>
sKey == <<"k", "e", "y">>
sPrompt == <<"p", "r", "o", "m", "p", "t">>
sStatus == <<"s", "t", "a", "t", "u", "s">>
sText == <<"t", "e", "x", "t">>
sAuth == <<"A", "u", "t", "h">>
sTaskDotId == <<"t", "a", "s", "k", ".", "i", "d">>
sTask == <<"t", "a", "s", "k">>
sData == <<"d", "a", "t", "a">>
sState == <<"s", "t", "a", "t", "e">>
sDataState == <<"d", "a", "t", "a", "[", "0", "]", ".", "s", "t", "a", "t", "e">>
sBearerKey == <<"B", " ">> \o OPEN \o sKey \o CLOSE

\* endpoints.generate of a provider that answers at once or hands out a task
GenerateDefault ==
    [url |-> <<"g", "/">> \o OPEN \o sId \o CLOSE, method |-> "POST",
     headers |-> (sAuth :> sBearerKey),
     paramMapping |-> Obj(<<"m">> :> Str(OPEN \o sId \o CLOSE)
                          @@ <<"p">> :> Str(OPEN \o sPrompt \o CLOSE)),
     outputMapping |-> (sText :> sText)]

\* endpoints.generate with the task id under task.id and the key in the URL
GenerateMapped ==
    [url |-> <<"g", "?">> \o OPEN \o sKey \o CLOSE, method |-> "POST",
     headers |-> Undefined,
     paramMapping |-> Arr(<<Str(OPEN \o sPrompt \o CLOSE)>>),
     outputMapping |-> (sId :> sTaskDotId)]

\* endpoints.status read at the default path "status"
StatusDefault ==
    [url |-> <<"s", "/">> \o OPEN \o sId \o CLOSE, method |-> "GET",
     headers |-> (sAuth :> sBearerKey),
     paramMapping |-> Undefined, outputMapping |-> Undefined]

\* endpoints.status with the status under data[0].state
StatusMapped ==
    [url |-> <<"s", "/">> \o OPEN \o sId \o CLOSE, method |-> "GET",
     headers |-> Undefined,
     paramMapping |-> Undefined, outputMapping |-> (sStatus :> sDataState)]

\* AIModelConfig values of generic providers: no endpoints at all, a status
\* endpoint without a generate endpoint, synchronous, and polling ones.
Configs ==
    {[id |-> <<"c", "0">>, name |-> "No Endpoints", provider |-> "kie",
      endpoints |-> Undefined],
     [id |-> <<"c", "1">>, name |-> "Status Only", provider |-> "kie",
      endpoints |-> [generate |-> Undefined, status |-> StatusDefault]],
     [id |-> <<"c", "2">>, name |-> "Sync", provider |-> "kie",
      endpoints |-> [generate |-> GenerateDefault, status |-> Undefined]],
     [id |-> <<"c", "3">>, name |-> "Async", provider |-> "kie",
      endpoints |-> [generate |-> GenerateDefault, status |-> StatusDefault]],
     [id |-> <<"c", "4">>, name |-> "Async Mapped", provider |-> "comfyui",
      endpoints |-> [generate |-> GenerateMapped, status |-> StatusMapped]]}

\* { prompt }, the inputs generateText and generateVisual pass
CallInputs == {sPrompt :> Str(<<"h", "i">>)}

\* The credential store before the call.
CredentialStores == {<<>>, "apikey_kie" :> <<"K">>, "apikey_comfyui" :> <<"C", "2">>}

\* An HTTP exchange as the gateway sees it: fetch rejects ("error"), or
\* resolves to a response with ok, status, the body's text and what
\* response.json() gives (Unparseable when it throws).
Unparseable == [t |-> "unparseable"]
NetworkError == [kind |-> "error"]
Response(ok, status, text, json) ==
    [kind |-> "response", ok |-> ok, status |-> status, text |-> text, json |-> json]

sT1 == <<"t", "1">>

GenerateResponses ==
    {NetworkError,
     Response(FALSE, 500, "server error", Unparseable),
     Response(FALSE, 401, "{id:t1}", Obj(sId :> Str(sT1))),
     Response(TRUE, 200, "<html>", Unparseable),
     Response(TRUE, 200, "{id:t1,text:hello}",
              Obj(sId :> Str(sT1) @@ sText :> Str(<<"h", "e", "l", "l", "o">>))),
     Response(TRUE, 200, "{task:{id:t1}}", Obj(sTask :> Obj(sId :> Str(sT1)))),
     Response(TRUE, 200, "{id:''}", Obj(sId :> Str(<<>>))),
     Response(TRUE, 200, "{id:0}", Obj(sId :> Num(0))),
     Response(TRUE, 200, "{id:7}", Obj(sId :> Num(7))),
     Response(TRUE, 201, "{}", Obj(<<>>))}

StatusWords ==
    {<<"s", "u", "c", "c", "e", "e", "d", "e", "d">>,
     <<"S", "U", "C", "C", "E", "E", "D", "E", "D">>,
     <<"C", "o", "m", "p", "l", "e", "t", "e", "d">>,
     <<"d", "o", "n", "e">>,
     <<"S", "u", "c", "c", "e", "s", "s">>,
     <<"f", "a", "i", "l", "e", "d">>,
     <<"E", "R", "R", "O", "R">>,
     <<"p", "e", "n", "d", "i", "n", "g">>,
     <<"d", "o", "n", "e", "!">>,
     <<>>}

StatusValues == {Str(w) : w \in StatusWords} \cup {Null, Num(3)}

StatusResponses ==
    {NetworkError,
     Response(FALSE, 503, "unavailable", Obj(sStatus :> Str(<<"d", "o", "n", "e">>))),
     Response(TRUE, 200, "<html>", Unparseable),
     Response(TRUE, 200, "{}", Obj(<<>>))}
    \cup {Response(TRUE, 200, "status", Obj(sStatus :> v)) : v \in StatusValues}
    \cup {Response(TRUE, 200, "data[0].state",
                   Obj(sData :> Arr(<<Obj(sState :> v)>>))) :
              v \in {Str(<<"D", "o", "n", "e">>), Str(<<"f", "a", "i", "l", "e", "d">>),
                     Str(<<"q", "u", "e", "u", "e", "d">>)}}

(***************************************************************************)
(* executeGenericRequest and pollForCompletion                             *)
(*                                                                         *)
(* One call is a frame: its arguments, the locals the code computes, the   *)
(* requests and sleeps it has made, the generate response (generated) and  *)
(* the latest status response (last) it was given, and how it ended: the  *)
(* value returned and the return statement that gave it (returnedBy), or   *)
(* the error thrown.  polled says that pollForCompletion was entered.      *)
(* pc is the await the call is suspended in: "awaitGenerate" (line 145),   *)
(* "sleeping" (197), "awaitStatus" (199), or "done" / "failed" once it     *)
(* has returned / thrown.                                                  *)
(***************************************************************************)
\* localStorage.getItem(key): the stored string, or null
getItem(store, key) == IF key \in DOMAIN store THEN Str(store[key]) ELSE Null

\* apiKey || ''
KeyOrEmpty(apiKey) == IF Truthy(apiKey) THEN apiKey.v ELSE <<>>

\* config.endpoints?.generate and config.endpoints?.status
GenerateEndpoint(config) ==
    IF config.endpoints = Undefined THEN Undefined ELSE config.endpoints.generate
StatusEndpoint(config) ==
    IF config.endpoints = Undefined THEN Undefined ELSE config.endpoints.status

\* endpoint.outputMapping?.[field] || fallback
OutputPath(endpoint, field, fallback) ==
    IF endpoint.outputMapping = Undefined THEN fallback
    ELSE IF field \in DOMAIN endpoint.outputMapping /\ endpoint.outputMapping[field] # <<>>
    THEN endpoint.outputMapping[field]
    ELSE fallback

\* for (const [key, value] of Object.entries(headers))
\*     headers[key] = value.replace('{{key}}', credential)
ResolveHeaders(headers, credential) ==
    IF headers = Undefined THEN <<>>
    ELSE [h \in DOMAIN headers |-> replaceFirst(headers[h], OPEN \o sKey \o CLOSE, credential)]

RequestInputsCallerWins(config, ins) ==
    [k \in DOMAIN ins \cup {sId} |-> IF k \in DOMAIN ins THEN ins[k] ELSE Str(config.id)]
\* { ...inputs, id: config.id }
RequestInputs(config, ins) ==
    [k \in DOMAIN ins \cup {sId} |-> IF k = sId THEN Str(config.id) ELSE ins[k]]

\* The errors the generic path throws: the message, and what the template
\* literal puts into it.
ConfigErrorById(config) ==
    [message |-> "No generation endpoint defined for model", model |-> config.id]
ConfigError(config) ==
    [message |-> "No generation endpoint defined for model", model |-> config.name]
ProviderErrorStatusOnly(resp) ==
    [message |-> "Provider Error", status |-> resp.status, text |-> ""]
ProviderError(resp) ==
    [message |-> "Provider Error", status |-> resp.status, text |-> resp.text]
TaskIdError == [message |-> "Could not extract Task ID from initial response for polling."]
GenerationFailedLowerCase(statusValue) ==
    [message |-> "Generation failed with status:", status |-> toLowerCase(statusValue)]
GenerationFailed(statusValue) ==
    [message |-> "Generation failed with status:", status |-> statusValue]
TimeoutError == [message |-> "Generation timed out."]
FetchRejected == [message |-> "TypeError: Failed to fetch"]
JsonRejected == [message |-> "SyntaxError: Unexpected token"]
NotAFunction == [message |-> "TypeError: statusValue?.toLowerCase is not a function"]

Throw(f, e) == [f EXCEPT !.pc = "failed", !.error = e]
Return(f, from, value) == [f EXCEPT !.pc = "done", !.result = value, !.returnedBy = from]

\* A frame before line 113.
BlankFrame(config, ins) ==
    [pc |-> "start", config |-> config, inputs |-> ins, apiKey |-> Undefined,
     body |-> Undefined, finalUrl |-> Undefined, headers |-> Undefined,
     generateRequests |-> 0, statusRequests |-> 0, sleeps |-> 0, elapsed |-> 0,
     i |-> 0, data |-> Undefined, taskId |-> Undefined,
     statusUrl |-> Undefined, statusHeaders |-> Undefined,
     generated |-> Undefined, polled |-> FALSE, last |-> Undefined,
     result |-> Undefined, returnedBy |-> "none",
     error |-> Undefined]

\* executeGenericRequest, lines 113-149: up to the await of the generate fetch.
ExecuteToFetch(config, ins, store) ==
    LET f0 == [BlankFrame(config, ins) EXCEPT
                  !.apiKey = getItem(store, "apikey_" \o config.provider)]
        endpoint == GenerateEndpoint(config)
        requestInputs == RequestInputs(config, ins)
    IN  IF endpoint = Undefined THEN Throw(f0, ConfigError(config))
        ELSE [f0 EXCEPT
                 !.pc = "awaitGenerate",
                 !.body = constructPayload(endpoint.paramMapping, requestInputs),
                 !.finalUrl = replaceTokens(endpoint.url, 1, requestInputs, f0.apiKey),
                 !.headers = ResolveHeaders(endpoint.headers, KeyOrEmpty(f0.apiKey)),
                 !.generateRequests = 1]

PollAcceptsEmptyId(f, initialResponse) ==
    LET statusEndpoint == StatusEndpoint(f.config)
        taskIdPath == OutputPath(GenerateEndpoint(f.config), sId, sId)
        taskId == resolvePath(initialResponse, taskIdPath)
    IN  IF taskId = Undefined \/ taskId = Null
        THEN Throw([f EXCEPT !.polled = TRUE, !.taskId = taskId], TaskIdError)
        ELSE [f EXCEPT
                 !.pc = "sleeping",
                 !.polled = TRUE,
                 !.taskId = taskId,
                 !.statusHeaders = ResolveHeaders(statusEndpoint.headers, KeyOrEmpty(f.apiKey)),
                 !.statusUrl = replaceFirst(statusEndpoint.url, OPEN \o sId \o CLOSE,
                                            StringOf(taskId)),
                 !.i = 0]
PollRequestsFirst(f, initialResponse) ==
    LET statusEndpoint == StatusEndpoint(f.config)
        taskIdPath == OutputPath(GenerateEndpoint(f.config), sId, sId)
        taskId == resolvePath(initialResponse, taskIdPath)
    IN  IF ~Truthy(taskId)
        THEN Throw([f EXCEPT !.polled = TRUE, !.taskId = taskId], TaskIdError)
        ELSE [f EXCEPT
                 !.pc = "awaitStatus",
                 !.polled = TRUE,
                 !.taskId = taskId,
                 !.statusHeaders = ResolveHeaders(statusEndpoint.headers, KeyOrEmpty(f.apiKey)),
                 !.statusUrl = replaceFirst(statusEndpoint.url, OPEN \o sId \o CLOSE,
                                            StringOf(taskId)),
                 !.statusRequests = 1,
                 !.i = 0]
\* pollForCompletion, lines 174-196: up to the first sleep.
PollToFirstSleep(f, initialResponse) ==
    LET statusEndpoint == StatusEndpoint(f.config)
        taskIdPath == OutputPath(GenerateEndpoint(f.config), sId, sId)
        taskId == resolvePath(initialResponse, taskIdPath)
    IN  IF ~Truthy(taskId)
        THEN Throw([f EXCEPT !.polled = TRUE, !.taskId = taskId], TaskIdError)
        ELSE [f EXCEPT
                 !.pc = "sleeping",
                 !.polled = TRUE,
                 !.taskId = taskId,
                 !.statusHeaders = ResolveHeaders(statusEndpoint.headers, KeyOrEmpty(f.apiKey)),
                 !.statusUrl = replaceFirst(statusEndpoint.url, OPEN \o sId \o CLOSE,
                                            StringOf(taskId)),
                 !.i = 0]

UsesPollingWhenMapped(config) ==
    StatusEndpoint(config) # Undefined /\ StatusEndpoint(config).outputMapping # Undefined

\* if (config.endpoints?.status)
UsesPolling(config) == StatusEndpoint(config) # Undefined

\* executeGenericRequest, lines 151-167: from the generate response on.
AfterGenerate(f, resp) ==
    LET g == [f EXCEPT !.generated = resp]
    IN  IF resp.kind = "error" THEN Throw(g, FetchRejected)
        ELSE IF ~resp.ok THEN Throw(g, ProviderError(resp))
        ELSE IF resp.json = Unparseable THEN Throw(g, JsonRejected)
        ELSE IF UsesPolling(f.config)
        THEN PollToFirstSleep([g EXCEPT !.data = resp.json], resp.json)
        ELSE Return([g EXCEPT !.data = resp.json], "generate", resp.json)

AfterSleepFromScratch(f) == [f EXCEPT !.pc = "awaitStatus", !.i = 0]
\* line 197 resolved, line 199 issued: the interval has passed and the
\* status request is on its way.
AfterSleep(f) ==
    [f EXCEPT !.pc = "awaitStatus", !.sleeps = @ + 1,
              !.elapsed = @ + POLLING_INTERVAL, !.statusRequests = @ + 1]

NextAttemptInclusive(f) ==
    IF f.i + 1 <= MAX_ATTEMPTS THEN [f EXCEPT !.pc = "sleeping", !.i = @ + 1]
    ELSE Throw([f EXCEPT !.i = @ + 1], TimeoutError)
\* The end of one loop iteration: i++, then i < MAX_ATTEMPTS or line 222.
NextAttempt(f) ==
    IF f.i + 1 < MAX_ATTEMPTS THEN [f EXCEPT !.pc = "sleeping", !.i = @ + 1]
    ELSE Throw([f EXCEPT !.i = @ + 1], TimeoutError)

SUCCESS_FLAGS ==
    {<<"s", "u", "c", "c", "e", "e", "d", "e", "d">>,
     <<"c", "o", "m", "p", "l", "e", "t", "e", "d">>,
     <<"d", "o", "n", "e">>,
     <<"s", "u", "c", "c", "e", "s", "s">>}
FAILURE_FLAGS == {<<"f", "a", "i", "l", "e", "d">>, <<"e", "r", "r", "o", "r">>}

IsSuccessExactCase(statusValue) == statusValue.v \in SUCCESS_FLAGS

\* [...].includes(statusValue?.toLowerCase()), for a string statusValue
IsSuccess(statusValue) == toLowerCase(statusValue.v) \in SUCCESS_FLAGS
IsFailure(statusValue) == toLowerCase(statusValue.v) \in FAILURE_FLAGS

AfterStatusFailsOnHttpError(f, resp) ==
    LET g == [f EXCEPT !.last = resp]
        statusPath == OutputPath(StatusEndpoint(f.config), sStatus, sStatus)
        statusValue == resolvePath(resp.json, statusPath)
    IN  IF resp.kind = "error" THEN Throw(g, FetchRejected)
        ELSE IF ~resp.ok THEN Throw(g, ProviderError(resp))
        ELSE IF resp.json = Unparseable THEN Throw(g, JsonRejected)
        ELSE IF statusValue = Undefined \/ statusValue = Null THEN NextAttempt(g)
        ELSE IF statusValue.t # "str" THEN Throw(g, NotAFunction)
        ELSE IF IsSuccess(statusValue) THEN Return(g, "poll", resp.json)
        ELSE IF IsFailure(statusValue) THEN Throw(g, GenerationFailed(statusValue.v))
        ELSE NextAttempt(g)
\* pollForCompletion, lines 204-220: from a status response on.
AfterStatus(f, resp) ==
    LET g == [f EXCEPT !.last = resp]
        statusPath == OutputPath(StatusEndpoint(f.config), sStatus, sStatus)
        statusValue == resolvePath(resp.json, statusPath)
    IN  IF resp.kind = "error" THEN Throw(g, FetchRejected)
        ELSE IF ~resp.ok THEN NextAttempt(g)
        ELSE IF resp.json = Unparseable THEN Throw(g, JsonRejected)
        ELSE IF statusValue = Undefined \/ statusValue = Null THEN NextAttempt(g)
        ELSE IF statusValue.t # "str" THEN Throw(g, NotAFunction)
        ELSE IF IsSuccess(statusValue) THEN Return(g, "poll", resp.json)
        ELSE IF IsFailure(statusValue) THEN Throw(g, GenerationFailed(statusValue.v))
        ELSE NextAttempt(g)

\* The store's apiKeys at construction: the native key, and the stored keys
\* of three generic providers, '' for a key that is not stored.
InitialApiKeys(store) ==
    [p \in {"google_native", "kie", "wavespeed", "openai_compatible"} |->
        IF p = "google_native" THEN KeyOrEmpty(getItem(store, "gemini_api_key"))
        ELSE KeyOrEmpty(getItem(store, "apikey_" \o p))]

InitGatewayVars ==
    /\ calls = <<>>
    /\ localStorage \in CredentialStores
    /\ generations = <<>>
    /\ apiKeys = InitialApiKeys(localStorage)

\* executeGenericRequest(config, inputs) is called and runs to its first await.
ExecuteGenericRequest(c, config, ins) ==
    /\ c \notin DOMAIN calls
    /\ calls' = calls @@ (c :> ExecuteToFetch(config, ins, localStorage))
    /\ UNCHANGED <<localStorage, generations, apiKeys>>

\* The provider answers the generate request.
GenerateResponded(c, resp) ==
    /\ c \in DOMAIN calls
    /\ calls[c].pc = "awaitGenerate"
    /\ calls' = [calls EXCEPT ![c] = AfterGenerate(@, resp)]
    /\ UNCHANGED <<localStorage, generations, apiKeys>>

SleepElapsedSharedCounter(c) ==
    /\ c \in DOMAIN calls
    /\ calls[c].pc = "sleeping"
    /\ calls' = [d \in DOMAIN calls |->
                    IF d = c
                    THEN [calls[d] EXCEPT !.pc = "awaitStatus", !.sleeps = @ + 1,
                                          !.elapsed = @ + POLLING_INTERVAL,
                                          !.statusRequests = @ + 1]
                    ELSE [calls[d] EXCEPT !.i = calls[c].i]]
    /\ UNCHANGED <<localStorage, generations, apiKeys>>
SleepElapsedRereadsKey(c) ==
    /\ c \in DOMAIN calls
    /\ calls[c].pc = "sleeping"
    /\ LET f == calls[c]
           stored == getItem(localStorage, "apikey_" \o f.config.provider)
       IN  calls' = [calls EXCEPT ![c] =
                        AfterSleep([f EXCEPT !.statusHeaders =
                            ResolveHeaders(StatusEndpoint(f.config).headers,
                                           KeyOrEmpty(stored))])]
    /\ UNCHANGED <<localStorage, generations, apiKeys>>
\* The polling interval of call c has passed.
SleepElapsed(c) ==
    /\ c \in DOMAIN calls
    /\ calls[c].pc = "sleeping"
    /\ calls' = [calls EXCEPT ![c] = AfterSleep(@)]
    /\ UNCHANGED <<localStorage, generations, apiKeys>>

\* The provider answers the status request.
StatusResponded(c, resp) ==
    /\ c \in DOMAIN calls
    /\ calls[c].pc = "awaitStatus"
    /\ calls' = [calls EXCEPT ![c] = AfterStatus(@, resp)]
    /\ UNCHANGED <<localStorage, generations, apiKeys>>

InitGateway == IdleRegistryVars /\ IdlePayloadVars /\ InitGatewayVars /\ IdleExtractVars /\ IdleSceneVars

NextGateway ==
    \/ (\E config \in Configs, ins \in CallInputs : ExecuteGenericRequest(1, config, ins))
          /\ UNCHANGED <<registryVars, payloadVars, extractVars, sceneVars>>
    \/ (\E resp \in GenerateResponses : GenerateResponded(1, resp))
          /\ UNCHANGED <<registryVars, payloadVars, extractVars, sceneVars>>
    \/ SleepElapsed(1) /\ UNCHANGED <<registryVars, payloadVars, extractVars, sceneVars>>
    \/ (\E resp \in StatusResponses : StatusResponded(1, resp))
          /\ UNCHANGED <<registryVars, payloadVars, extractVars, sceneVars>>

SpecGateway == InitGateway /\ [][NextGateway]_vars

(***************************************************************************)
(* Claims about the registry (checked under SpecRegistry)                  *)
(***************************************************************************)
HasModelsArray(o) ==
    o.fetch = "resolves" /\ o.ok /\ o.json = "object" /\ o.models.t = "arr"

\* C1: fetchRemoteDefinitions never fails to its caller: whatever the remote
\* does, it resolves to the built-in fallback list, except that a success
\* response whose body has an array under `models` resolves to that array.
C1_FetchNeverFails ==
    lastOp = "fetchModels" =>
        /\ ~fetched.threw
        /\ fetched.value = IF HasModelsArray(outcome) THEN outcome.models.v
                           ELSE LOCAL_FALLBACK_MODELS

\* A non-success response that does carry a models array gave the fallback list.
C1_Witness ==
    /\ lastOp = "fetchModels"
    /\ outcome.fetch = "resolves" /\ ~outcome.ok /\ outcome.models.t = "arr"
    /\ fetched = Returned(LOCAL_FALLBACK_MODELS)

\* C2: when fetchModels completes, availableModels is the merge of the
\* fetched list with customModels: a fetched entry whose id no custom entry
\* has stays at its position, a custom entry whose id matches a fetched
\* entry stands at that entry's position, and the custom entries with new
\* ids follow the fetched positions in customModels order.
C2_MergeAsClaimed ==
    (lastOp = "fetchModels" /\ ~fetched.threw) =>
        LET f == fetched.value
            c == customModels
            a == availableModels
            InFetched(id) == \E i \in 1..Len(f) : f[i].id = id
            InCustom(id) == \E j \in 1..Len(c) : c[j].id = id
        IN  /\ Len(a) >= Len(f)
            /\ \A i \in 1..Len(f) :
                  /\ ~InCustom(f[i].id) => a[i] = f[i]
                  /\ \A j \in 1..Len(c) : c[j].id = f[i].id => a[i] = c[j]
            /\ SubSeq(a, Len(f) + 1, Len(a))
                  = SelectSeq(c, LAMBDA m : ~InFetched(m.id))

\* C3: no two entries of availableModels share an id.
C3_OneActivePerId == DistinctIds(availableModels)

\* C4: once a fetchModels has completed, every custom model is in
\* availableModels and every availableModels entry with its id is that
\* custom definition.
C4_CustomWins ==
    fetchesCompleted > 0 =>
        \A j \in 1..Len(customModels) :
            /\ \E i \in 1..Len(availableModels) : availableModels[i] = customModels[j]
            /\ \A i \in 1..Len(availableModels) :
                  availableModels[i].id = customModels[j].id
                      => availableModels[i] = customModels[j]

(***************************************************************************)
(* Claims about constructPayload (checked under SpecPayload)               *)
(***************************************************************************)
Called == payload # Undefined

\* The names a placeholder can carry: non-empty words.
Names == SeqsUpTo({"x", "y"}, MaxStrLen) \ {<<>>}

\* C5: for a template that is exactly {{name}}, constructPayload returns
\* inputs[name] when that is defined, whatever its type or truthiness, and
\* the template itself when it is undefined.
C5_WholeStringPlaceholder ==
    \A name \in Names :
        (Called /\ mapping = Str(OPEN \o name \o CLOSE)) =>
            payload = IF name \in DOMAIN inputs /\ inputs[name] # Undefined
                      THEN inputs[name]
                      ELSE mapping

\* {{x}} with x the empty string: the falsy value is what comes back.
C5_Witness ==
    /\ mapping = Str(OPEN \o <<"x">> \o CLOSE)
    /\ inputs = (<<"x">> :> Str(<<>>))
    /\ payload = Str(<<>>)

\* A string holds a marker when "{{" is followed, anywhere later, by "}}".
HasMarker(s) ==
    \E i, j \in 1..Len(s) :
        /\ i + 1 < j /\ j < Len(s)
        /\ SubSeq(s, i, i + 1) = OPEN
        /\ SubSeq(s, j, j + 1) = CLOSE

RECURSIVE NoMarker(_)
NoMarker(m) ==
    CASE m.t = "str" -> ~HasMarker(m.v)
      [] m.t = "arr" -> \A i \in 1..Len(m.v) : NoMarker(m.v[i])
      [] m.t = "obj" -> \A k \in DOMAIN m.v : NoMarker(m.v[k])
      [] OTHER -> TRUE

C7_NoGenerateEndpoint ==
    \A c \in DOMAIN calls :
        LET f == calls[c]
        IN  (f.config.endpoints = Undefined \/ f.config.endpoints.generate = Undefined) =>
                /\ f.pc = "failed"
                /\ f.error.message = "No generation endpoint defined for model"
                /\ f.error.model = f.config.name
                /\ f.generateRequests = 0
                /\ f.statusRequests = 0

\* The config with a status endpoint but no generate endpoint has failed.
C7_Witness ==
    /\ 1 \in DOMAIN calls
    /\ calls[1].config.name = "Status Only"
    /\ calls[1].pc = "failed"
    /\ calls[1].error = ConfigError(calls[1].config)

NonSuccess(resp) == resp # Undefined /\ resp.kind = "response" /\ ~resp.ok
ParsedSuccess(resp) ==
    resp # Undefined /\ resp.kind = "response" /\ resp.ok /\ resp.json # Unparseable

\* C8: a call whose generate response was non-success has failed with an
\* error carrying that response's status code and body text, after exactly
\* one generate request, no status request and no sleep.
C8_ProviderError ==
    \A c \in DOMAIN calls :
        LET f == calls[c]
        IN  NonSuccess(f.generated) =>
                /\ f.pc = "failed"
                /\ f.error.message = "Provider Error"
                /\ f.error.status = f.generated.status
                /\ f.error.text = f.generated.text
                /\ f.generateRequests = 1
                /\ f.statusRequests = 0 /\ f.sleeps = 0 /\ ~f.polled

\* A polling config answered 401 with a body that carries a task id.
C8_Witness ==
    /\ 1 \in DOMAIN calls
    /\ calls[1].config.name = "Async"
    /\ calls[1].generated = Response(FALSE, 401, "{id:t1}", Obj(sId :> Str(sT1)))
    /\ calls[1].error = [message |-> "Provider Error", status |-> 401, text |-> "{id:t1}"]

\* C9: after a successful (parsed) generate response the call goes through
\* pollForCompletion if and only if the config has a status endpoint: with
\* one, whatever the call returns is what the poll returned, the status
\* response that ended it; without one, the call has returned the parsed
\* generate response and has made no status request.
C9_PollIffStatusEndpoint ==
    \A c \in DOMAIN calls :
        LET f == calls[c]
            hasStatus == f.config.endpoints.status # Undefined
        IN  ParsedSuccess(f.generated) =>
                /\ f.polled <=> hasStatus
                /\ hasStatus =>
                      /\ f.returnedBy # "generate"
                      /\ f.pc = "done" =>
                            /\ f.returnedBy = "poll"
                            /\ f.last # Undefined /\ f.result = f.last.json
                /\ ~hasStatus =>
                      /\ f.pc = "done" /\ f.returnedBy = "generate"
                      /\ f.result = f.generated.json
                      /\ f.statusRequests = 0 /\ f.sleeps = 0

\* A polling call has returned a status response, not the generate response.
C9_Witness ==
    /\ 1 \in DOMAIN calls
    /\ calls[1].config.name = "Async Mapped"
    /\ calls[1].pc = "done"
    /\ calls[1].returnedBy = "poll"
    /\ calls[1].result # calls[1].generated.json

\* Equality of two strings up to the case of their letters.
SameLetter(x, y) == \E n \in 1..26 : {x, y} = {UPPER[n], LOWER[n]}
EqualIgnoringCase(a, b) ==
    /\ Len(a) = Len(b)
    /\ \A k \in 1..Len(a) : a[k] = b[k] \/ SameLetter(a[k], b[k])

ClaimedSuccessWords ==
    {<<"s", "u", "c", "c", "e", "e", "d", "e", "d">>,
     <<"c", "o", "m", "p", "l", "e", "t", "e", "d">>,
     <<"d", "o", "n", "e">>,
     <<"s", "u", "c", "c", "e", "s", "s">>}

\* The status the call's status endpoint definition extracts from a response.
ExtractedStatus(f, resp) ==
    resolvePath(resp.json, OutputPath(f.config.endpoints.status, sStatus, sStatus))

\* A parsed status response whose extracted status is a success word in any case.
ReportsSuccess(f, resp) ==
    /\ ParsedSuccess(resp)
    /\ ExtractedStatus(f, resp).t = "str"
    /\ \E w \in ClaimedSuccessWords : EqualIgnoringCase(ExtractedStatus(f, resp).v, w)

\* C10: a call whose latest status response reports success, in any letter
\* case, has returned that response, and the sleeps and status requests it
\* has made are those up to that response: none came after it.
C10_SuccessEndsPoll ==
    \A c \in DOMAIN calls :
        LET f == calls[c]
        IN  ReportsSuccess(f, f.last) =>
                /\ f.pc = "done"
                /\ f.returnedBy = "poll"
                /\ f.result = f.last.json
                /\ f.statusRequests = f.i + 1
                /\ f.sleeps = f.i + 1

\* "SUCCEEDED" on the third attempt, after two attempts that did not end the poll.
C10_Witness ==
    /\ 1 \in DOMAIN calls
    /\ calls[1].pc = "done"
    /\ calls[1].returnedBy = "poll"
    /\ calls[1].last.json = Obj(sStatus :> Str(<<"S", "U", "C", "C", "E", "E", "D", "E", "D">>))
    /\ calls[1].i = 2
    /\ calls[1].statusRequests = 3

ClaimedFailureWords == {<<"f", "a", "i", "l", "e", "d">>, <<"e", "r", "r", "o", "r">>}

\* A parsed status response whose extracted status is a failure word in any case.
ReportsFailure(f, resp) ==
    /\ ParsedSuccess(resp)
    /\ ExtractedStatus(f, resp).t = "str"
    /\ \E w \in ClaimedFailureWords : EqualIgnoringCase(ExtractedStatus(f, resp).v, w)

\* C11: a call whose latest status response reports "failed" or "error", in
\* any letter case, has failed at that attempt with the generation-failed
\* error carrying the status value exactly as the provider wrote it; the
\* status requests and sleeps it has made are those up to that response, so
\* the rest of the attempt budget was not used.
C11_FailureEndsPoll ==
    \A c \in DOMAIN calls :
        LET f == calls[c]
        IN  ReportsFailure(f, f.last) =>
                /\ f.pc = "failed"
                /\ f.error.message = "Generation failed with status:"
                /\ f.error.status = ExtractedStatus(f, f.last).v
                /\ f.statusRequests = f.i + 1
                /\ f.sleeps = f.i + 1
                /\ f.i < MAX_ATTEMPTS

\* "ERROR" on the second attempt: the poll failed there, with the raw value.
C11_Witness ==
    /\ 1 \in DOMAIN calls
    /\ calls[1].pc = "failed"
    /\ calls[1].last # Undefined
    /\ calls[1].last.kind = "response"
    /\ calls[1].last.json = Obj(sStatus :> Str(<<"E", "R", "R", "O", "R">>))
    /\ calls[1].error = GenerationFailed(<<"E", "R", "R", "O", "R">>)
    /\ calls[1].i = 1
    /\ calls[1].statusRequests = 2

\* The call has made all MAX_ATTEMPTS status attempts and the last one has
\* been answered.  (A terminal status ends the poll at its attempt, C10 and
\* C11, so when the latest attempt is the 60th and is not terminal, none was.)
BudgetExhausted(f) ==
    /\ f.polled
    /\ f.statusRequests = MAX_ATTEMPTS
    /\ f.pc # "awaitStatus"
    /\ ~ReportsSuccess(f, f.last)
    /\ ~ReportsFailure(f, f.last)

TimedOut(f) == f.pc = "failed" /\ f.error = TimeoutError

\* C12: a call has failed with the timeout error exactly when it has made 60
\* status attempts, all answered, none with a terminal success or failure
\* status; in particular the timeout is never raised earlier.
C12_TimeoutIffBudgetExhausted ==
    \A c \in DOMAIN calls : TimedOut(calls[c]) <=> BudgetExhausted(calls[c])

\* What the code does keep of this: a timeout is raised only after the
\* 60th attempt has completed without a terminal status.
TimeoutOnlyAfterBudget ==
    \A c \in DOMAIN calls :
        TimedOut(calls[c]) =>
            /\ BudgetExhausted(calls[c])
            /\ calls[c].i = MAX_ATTEMPTS
            /\ calls[c].sleeps = MAX_ATTEMPTS

\* Call c takes the answer to its status request in this step.
StatusAnswered(c) ==
    /\ c \in DOMAIN calls
    /\ calls[c].pc = "awaitStatus"
    /\ calls'[c] # calls[c]

\* C13: a non-success HTTP answer to a status request uses up exactly one
\* attempt and nothing else: no request and no sleep is added by it, and the
\* call goes on to the sleep of the next attempt without an error or a
\* result; only when the attempt was the 60th does the call end, with the
\* timeout error and exactly 60 status requests made.
C13_HttpErrorIsTransient ==
    [][\A c \in DOMAIN calls :
          (StatusAnswered(c) /\ NonSuccess(calls'[c].last)) =>
              LET f == calls[c]
                  g == calls'[c]
              IN  /\ g.i = f.i + 1
                  /\ g.statusRequests = f.statusRequests
                  /\ g.sleeps = f.sleeps
                  /\ IF g.i < MAX_ATTEMPTS
                     THEN g.pc = "sleeping" /\ g.error = Undefined /\ g.result = Undefined
                     ELSE /\ g.pc = "failed" /\ g.error = TimeoutError
                          /\ g.statusRequests = MAX_ATTEMPTS
                          /\ g.sleeps = MAX_ATTEMPTS]_vars

\* The 60th attempt was answered 503 and the call timed out.
C13_Witness ==
    /\ 1 \in DOMAIN calls
    /\ NonSuccess(calls[1].last)
    /\ calls[1].last.status = 503
    /\ calls[1].pc = "failed"
    /\ calls[1].error = TimeoutError
    /\ calls[1].statusRequests = MAX_ATTEMPTS

\* A provider whose status endpoint answers non-success on every attempt.
NextStatusDown ==
    \/ (\E config \in Configs, ins \in CallInputs : ExecuteGenericRequest(1, config, ins))
          /\ UNCHANGED <<registryVars, payloadVars, extractVars, sceneVars>>
    \/ (\E resp \in GenerateResponses : GenerateResponded(1, resp))
          /\ UNCHANGED <<registryVars, payloadVars, extractVars, sceneVars>>
    \/ SleepElapsed(1) /\ UNCHANGED <<registryVars, payloadVars, extractVars, sceneVars>>
    \/ (\E resp \in StatusResponses : NonSuccess(resp) /\ StatusResponded(1, resp))
          /\ UNCHANGED <<registryVars, payloadVars, extractVars, sceneVars>>

SpecStatusDown == InitGateway /\ [][NextStatusDown]_vars

\* Under SpecStatusDown a poll that has started its loop ends only in the
\* timeout error, after exactly 60 status requests and 60 sleeps.
StatusDownTimesOut ==
    \A c \in DOMAIN calls :
        LET f == calls[c]
        IN  (f.polled /\ f.statusUrl # Undefined) =>
                /\ f.pc \in {"sleeping", "awaitStatus", "failed"}
                /\ f.pc = "failed" =>
                      /\ f.error = TimeoutError
                      /\ f.statusRequests = MAX_ATTEMPTS
                      /\ f.sleeps = MAX_ATTEMPTS

\* C14: a call never makes more than 60 status requests, has slept one full
\* interval of 2000 ms for each of them (the sleeps completed are never fewer
\* than the status requests issued, and the time slept is 2000 ms per sleep),
\* and has never a status request out before its first sleep is over.
C14_BoundedPacedPolling ==
    \A c \in DOMAIN calls :
        LET f == calls[c]
        IN  /\ f.statusRequests <= MAX_ATTEMPTS
            /\ f.sleeps >= f.statusRequests
            /\ f.elapsed = f.sleeps * POLLING_INTERVAL
            /\ (f.statusRequests > 0 \/ f.pc = "awaitStatus") => f.sleeps >= 1
            /\ (f.polled /\ f.sleeps = 0) => f.last = Undefined

\* The whole budget was used: 60 requests, each after its own sleep.
C14_Witness ==
    /\ 1 \in DOMAIN calls
    /\ calls[1].statusRequests = MAX_ATTEMPTS
    /\ calls[1].sleeps = MAX_ATTEMPTS
    /\ calls[1].elapsed = MAX_ATTEMPTS * POLLING_INTERVAL
    /\ calls[1].pc = "awaitStatus"

(***************************************************************************)
(* A provider whose status endpoint answers pending, pending, succeeded    *)
(* (checked under SpecScripted)                                            *)
(***************************************************************************)
sPending == <<"p", "e", "n", "d", "i", "n", "g">>
sSucceeded == <<"s", "u", "c", "c", "e", "e", "d", "e", "d">>

\* The statuses the provider reports, by status request.
Script == <<sPending, sPending, sSucceeded>>

\* A status document carrying word w where the config's status endpoint
\* reads it: at "status", or at "data[0].state" for the mapped endpoint.
StatusBody(config, w) ==
    IF StatusEndpoint(config).outputMapping = Undefined
    THEN Obj(sStatus :> Str(w))
    ELSE Obj(sData :> Arr(<<Obj(sState :> Str(w))>>))

\* The provider's answer to the k-th status request of a call.
ScriptedResponse(config, k) == Response(TRUE, 200, "scripted", StatusBody(config, Script[k]))

NextScripted ==
    \/ (\E config \in Configs, ins \in CallInputs : ExecuteGenericRequest(1, config, ins))
          /\ UNCHANGED <<registryVars, payloadVars, extractVars, sceneVars>>
    \/ (\E resp \in GenerateResponses : GenerateResponded(1, resp))
          /\ UNCHANGED <<registryVars, payloadVars, extractVars, sceneVars>>
    \/ SleepElapsed(1) /\ UNCHANGED <<registryVars, payloadVars, extractVars, sceneVars>>
    \/ /\ 1 \in DOMAIN calls
       /\ calls[1].pc = "awaitStatus"
       /\ calls[1].statusRequests \in 1..Len(Script)
       /\ StatusResponded(1, ScriptedResponse(calls[1].config, calls[1].statusRequests))
       /\ UNCHANGED <<registryVars, payloadVars, extractVars, sceneVars>>

SpecScripted == InitGateway /\ [][NextScripted]_vars

\* The poll of call c has returned.
PollReturned(c) ==
    c \in DOMAIN calls /\ calls[c].pc = "done" /\ calls[c].returnedBy = "poll"

\* C15 as stated: with the answers pending, pending, succeeded the poll
\* returns the third response, and exactly two waits of 2000 ms have elapsed
\* when that response is obtained.
C15_TwoWaitsBeforeThird ==
    \A c \in DOMAIN calls :
        PollReturned(c) =>
            /\ calls[c].result = ScriptedResponse(calls[c].config, 3).json
            /\ calls[c].sleeps = 2
            /\ calls[c].elapsed = 2 * POLLING_INTERVAL

\* C15, amended: with the answers pending, pending, succeeded a poll that
\* has entered its loop never fails; it returns the third response, after
\* exactly three status requests, and exactly three waits of 2000 ms have
\* elapsed when that response is obtained: one before each request.
C15_ThreeWaitsBeforeThird ==
    \A c \in DOMAIN calls :
        LET f == calls[c]
        IN  /\ (f.polled /\ f.statusUrl # Undefined) => f.pc # "failed"
            /\ PollReturned(c) =>
                  /\ f.result = ScriptedResponse(f.config, 3).json
                  /\ f.last = ScriptedResponse(f.config, 3)
                  /\ f.statusRequests = 3
                  /\ f.sleeps = 3
                  /\ f.elapsed = 3 * POLLING_INTERVAL

\* The poll has returned the "succeeded" document after two "pending" ones.
C15_Witness ==
    /\ PollReturned(1)
    /\ calls[1].config.name = "Async"
    /\ calls[1].result = Obj(sStatus :> Str(sSucceeded))
    /\ calls[1].i = 2
    /\ calls[1].sleeps = 3

(***************************************************************************)
(* generateText and generateVisual                                         *)
(*                                                                         *)
(* One call is a frame of generations; on the generic path the call of     *)
(* executeGenericRequest it awaits is the frame of calls with the same id. *)
(* pc is the await the call is suspended in: "awaitImport" (line 230),     *)
(* "awaitNative" (235), "awaitExecute" (245 / 270), "awaitImage" (287),    *)
(* "reading" (288-296), "delegated" (265), or "done" / "failed".           *)
(***************************************************************************)
sImage == <<"i", "m", "a", "g", "e">>
sImageUrl == <<"i", "m", "a", "g", "e", "_", "u", "r", "l">>
sUrl == <<"u", "r", "l">>
sDataUrlPath == <<"d", "a", "t", "a", "[", "0", "]", ".", "u", "r", "l">>
sHello == <<"h", "e", "l", "l", "o">>

\* endpoints.generate of an image provider that answers at once, the image
\* under data[0].url
GenerateImage ==
    [url |-> <<"i", "m", "g">>, method |-> "POST", headers |-> Undefined,
     paramMapping |-> Obj(<<"p">> :> Str(OPEN \o sPrompt \o CLOSE)),
     outputMapping |-> (sImage :> sDataUrlPath)]

\* endpoints of an image provider that hands out a task: the generate
\* mapping names the task id and, for the image, a path the finished task
\* does not use; the status mapping names the image under data[0].url
GenerateTask ==
    [url |-> <<"i", "m", "g">>, method |-> "POST", headers |-> Undefined,
     paramMapping |-> Obj(<<"p">> :> Str(OPEN \o sPrompt \o CLOSE)),
     outputMapping |-> (sId :> sId @@ sImage :> sId)]
StatusImage ==
    [url |-> <<"s", "/">> \o OPEN \o sId \o CLOSE, method |-> "GET",
     headers |-> Undefined,
     paramMapping |-> Undefined, outputMapping |-> (sImage :> sDataUrlPath)]

\* endpoints.generate of a chat provider, the text under
\* choices[0].message.content
sChatPath == <<"c", "h", "o", "i", "c", "e", "s", "[", "0", "]", ".", "m", "e", "s", "s", "a", "g", "e", ".", "c", "o", "n", "t", "e", "n", "t">>
GenerateChat ==
    [url |-> <<"c", "h", "a", "t">>, method |-> "POST", headers |-> (sAuth :> sBearerKey),
     paramMapping |-> Obj(<<"m", "e", "s", "s", "a", "g", "e", "s">> :> Arr(<<Obj(<<"c", "o", "n", "t", "e", "n", "t">> :> Str(OPEN \o sPrompt \o CLOSE))>>)),
     outputMapping |-> (sText :> sChatPath)]

\* {choices: [{message: {content: "Hello"}}]}
ChatDoc ==
    Obj(<<"c", "h", "o", "i", "c", "e", "s">> :> Arr(<<Obj(<<"m", "e", "s", "s", "a", "g", "e">> :> Obj(<<"c", "o", "n", "t", "e", "n", "t">> :> Str(<<"H", "e", "l", "l", "o">>)))>>))

\* The configurations the application calls the two operations with.
FacadeConfigs ==
    {[id |-> <<"g", "e", "m", "i", "n", "i", "-", "2", ".", "5", "-", "f", "l", "a", "s", "h">>, name |-> "Gemini 2.5 Flash", provider |-> "google_native",
      endpoints |-> Undefined],
     [id |-> <<"c", "0">>, name |-> "No Endpoints", provider |-> "kie", endpoints |-> Undefined],
     [id |-> <<"c", "2">>, name |-> "Sync", provider |-> "kie",
      endpoints |-> [generate |-> GenerateDefault, status |-> Undefined]],
     [id |-> <<"c", "3">>, name |-> "Async", provider |-> "kie",
      endpoints |-> [generate |-> GenerateDefault, status |-> StatusDefault]],
     [id |-> <<"c", "5">>, name |-> "Sync Image", provider |-> "comfyui",
      endpoints |-> [generate |-> GenerateImage, status |-> Undefined]],
     [id |-> <<"c", "6">>, name |-> "Chat", provider |-> "kie",
      endpoints |-> [generate |-> GenerateChat, status |-> Undefined]],
     [id |-> <<"c", "7">>, name |-> "Near Native", provider |-> "Google_Native",
      endpoints |-> [generate |-> GenerateDefault, status |-> Undefined]],
     [id |-> <<"c", "8">>, name |-> "Async Image", provider |-> "comfyui",
      endpoints |-> [generate |-> GenerateTask, status |-> StatusImage]]}

Prompts == {<<"h", "i">>}

\* The credential store before the call: nothing, a generic credential, the
\* native credential, an empty native credential, and a generic credential
\* filed under the native provider's name.
FacadeStores ==
    {<<>>, "apikey_kie" :> <<"K">>, "gemini_api_key" :> <<"G">>, "gemini_api_key" :> <<>>,
     "apikey_google_native" :> <<"N">>}

\* What a provider puts where the text is expected.
TextValues == {Undefined, Str(sHello), Str(<<>>), Num(3), Null, Arr(<<Str(sHello)>>)}

\* What a provider puts where the image is expected.
ImageValues ==
    {Undefined, Str(<<>>), Num(5),
     Str(<<"h", "t", "t", "p", ":", "/", "/", "x">>), Str(<<"h", "t", "t", "p", "s", ":", "/", "/", "y">>), Str(<<"h", "t", "t", "p", "Q", "U", "J", "D">>), Str(<<"H", "T", "T", "P", ":", "/", "/", "X">>),
     Str(<<"d", "a", "t", "a", ":", "i", "m", "a", "g", "e", "/", "p", "n", "g", ";", "b", "a", "s", "e", "6", "4", ",", "Q", "U", "J", "D">>), Str(<<"d", "a", "t", "a", ":", "i", "m", "a", "g", "e">>),
     Str(<<"Q", "U", "J", "D">>)}

\* A provider document: a finished task with a text and an image, each
\* left out when Undefined; the image is given at image_url and at data[0].url.
ResultDoc(text, image) ==
    Obj([k \in {sId, sStatus}
               \cup (IF text = Undefined THEN {} ELSE {sText})
               \cup (IF image = Undefined THEN {} ELSE {sImageUrl, sData}) |->
            CASE k = sId -> Str(sT1)
              [] k = sStatus -> Str(<<"d", "o", "n", "e">>)
              [] k = sText -> text
              [] k = sImageUrl -> image
              [] k = sData -> Arr(<<Obj(sUrl :> image)>>)])

ResultDocs ==
    {ResultDoc(text, Undefined) : text \in TextValues}
        \cup {ResultDoc(Undefined, image) : image \in ImageValues}

\* The answers to the generate request: of a polling provider a task handle,
\* of a synchronous one the result.
FacadeGenerateResponses(config) ==
    {NetworkError, Response(FALSE, 500, "server error", Unparseable),
     Response(TRUE, 200, "{}", Obj(<<>>))}
    \cup IF UsesPolling(config)
         THEN {Response(TRUE, 200, "{id:t1}", Obj(sId :> Str(sT1)))}
         ELSE {Response(TRUE, 200, "result", doc) : doc \in ResultDocs \cup {ChatDoc}}

\* The answers to a status request.
FacadeStatusResponses ==
    {Response(TRUE, 200, "status", Obj(sStatus :> Str(sPending))),
     Response(TRUE, 200, "status", Obj(sStatus :> Str(<<"f", "a", "i", "l", "e", "d">>)))}
    \cup {Response(TRUE, 200, "result", doc) : doc \in ResultDocs}

\* The answers to fetch(imageUrl): the fetch rejects, or resolves to a
\* response (whose ok the code does not look at) with a body of bytes.
ImageResponses ==
    {NetworkError,
     [kind |-> "response", ok |-> TRUE, type |-> <<"i", "m", "a", "g", "e", "/", "p", "n", "g">>, bytes |-> <<65, 66, 67>>],
     [kind |-> "response", ok |-> FALSE, type |-> <<"t", "e", "x", "t", "/", "h", "t", "m", "l">>, bytes |-> <<60>>]}

\* The answers of ai.models.generateContent: it rejects, or resolves to a
\* response with a text or without one.
NativeResponses ==
    {NetworkError, [kind |-> "response", text |-> Str(sHello)],
     [kind |-> "response", text |-> Undefined]}

\* s.split(',')[1]: what lies between the first comma and the next one (or
\* the end); undefined when s has no comma.
splitSecond(s) ==
    LET first == indexOf(s, <<",">>)
        rest == SubSeq(s, first + 1, Len(s))
        next == indexOf(rest, <<",">>)
    IN  IF first = 0 THEN Undefined
        ELSE IF next = 0 THEN Str(rest)
        ELSE Str(SubSeq(rest, 1, next - 1))

\* The base64 alphabet, and the encoding FileReader.readAsDataURL applies to
\* the bytes of a blob: three bytes to four characters, "=" for padding.
BASE64 == UPPER \o LOWER \o DIGITS \o <<"+", "/">>

RECURSIVE Base64(_)
Base64(bytes) ==
    IF bytes = <<>> THEN <<>>
    ELSE LET n == Len(bytes)
             b1 == bytes[1]
             b2 == IF n >= 2 THEN bytes[2] ELSE 0
             b3 == IF n >= 3 THEN bytes[3] ELSE 0
             word == b1 * 65536 + b2 * 256 + b3
             c1 == BASE64[(word \div 262144) + 1]
             c2 == BASE64[((word \div 4096) % 64) + 1]
             c3 == IF n >= 2 THEN BASE64[((word \div 64) % 64) + 1] ELSE "="
             c4 == IF n >= 3 THEN BASE64[(word % 64) + 1] ELSE "="
         IN  <<c1, c2, c3, c4>> \o (IF n > 3 THEN Base64(SubSeq(bytes, 4, n)) ELSE <<>>)

\* reader.result after readAsDataURL(blob)
DataUrl(blob) == <<"d", "a", "t", "a", ":">> \o blob.type \o <<";", "b", "a", "s", "e", "6", "4", ",">> \o Base64(blob.bytes)

\* The errors of the two operations.  Wrapped is line 255 / 306:
\* new Error(`[${config.name}] Error: ${e.message}`).
ExtractTextError == [message |-> "Could not extract text from provider response."]
ExtractImageError == [message |-> "Could not extract image URL from provider response."]
KeyNotFound == [message |-> "Google API Key not found."]
ImportRejected == [message |-> "TypeError: Failed to fetch dynamically imported module"]
StartsWithNotAFunction == [message |-> "TypeError: imageUrl.startsWith is not a function"]
ReaderErrorEvent == [type |-> "error", target |-> "FileReader"]
Wrapped(config, e) == [message |-> "[model] Error: cause", model |-> config.name, cause |-> e]

Fail(g, e) == [g EXCEPT !.pc = "failed", !.error = e]
Done(g, value) == [g EXCEPT !.pc = "done", !.result = value]

\* A frame at the entry of generateText / generateVisual.
BlankGeneration(op, prompt, config) ==
    [op |-> op, prompt |-> prompt, config |-> config, pc |-> "start",
     apiKey |-> Undefined, imports |-> 0, nativeRequests |-> 0,
     imageUrl |-> Undefined, imageFetches |-> 0, blob |-> Undefined,
     result |-> Undefined, error |-> Undefined]

\* { prompt }
PromptInputs(prompt) == sPrompt :> Str(prompt)

NativeKeyOrGeneric(store) ==
    IF Truthy(getItem(store, "gemini_api_key"))
    THEN getItem(store, "gemini_api_key").v
    ELSE KeyOrEmpty(getItem(store, "apikey_google_native"))

\* localStorage.getItem('gemini_api_key') || ''
NativeKey(store) == KeyOrEmpty(getItem(store, "gemini_api_key"))

\* generateText, lines 231-239: from the import to the generateContent call.
AfterImport(g, ok, store) ==
    IF ~ok THEN Fail(g, ImportRejected)
    ELSE IF NativeKey(store) = <<>> THEN Fail([g EXCEPT !.apiKey = <<>>], KeyNotFound)
    ELSE [g EXCEPT !.pc = "awaitNative", !.apiKey = NativeKey(store), !.nativeRequests = 1]

\* generateText, line 241: response.text || ''
AfterNative(g, resp) ==
    IF resp.kind = "error" THEN Fail(g, FetchRejected)
    ELSE Done(g, IF Truthy(resp.text) THEN resp.text ELSE Str(<<>>))

ExtractTextIfTruthy(g, f) ==
    IF f.pc = "failed" THEN Fail(g, Wrapped(g.config, f.error))
    ELSE LET resultPath == OutputPath(GenerateEndpoint(g.config), sText, sText)
             text == resolvePath(f.result, resultPath)
         IN  IF ~Truthy(text) THEN Fail(g, Wrapped(g.config, ExtractTextError))
             ELSE Done(g, text)

\* generateText, lines 245-256: from the end of executeGenericRequest (frame f).
AfterExecuteText(g, f) ==
    IF f.pc = "failed" THEN Fail(g, Wrapped(g.config, f.error))
    ELSE LET resultPath == OutputPath(GenerateEndpoint(g.config), sText, sText)
             text == resolvePath(f.result, resultPath)
         IN  IF text.t # "str" THEN Fail(g, Wrapped(g.config, ExtractTextError))
             ELSE Done(g, text)

ExtractByGenerateMapping(g, f) ==
    IF f.pc = "failed" THEN Fail(g, Wrapped(g.config, f.error))
    ELSE LET resultPath == OutputPath(GenerateEndpoint(g.config), sImage, sImageUrl)
             imageUrl == resolvePath(f.result, resultPath)
             h == [g EXCEPT !.imageUrl = imageUrl]
         IN  IF ~Truthy(imageUrl) THEN Fail(h, Wrapped(g.config, ExtractImageError))
             ELSE IF imageUrl.t # "str" THEN Fail(h, Wrapped(g.config, StartsWithNotAFunction))
             ELSE IF startsWith(imageUrl.v, <<"h", "t", "t", "p">>)
             THEN [h EXCEPT !.pc = "awaitImage", !.imageFetches = 1]
             ELSE IF startsWith(imageUrl.v, <<"d", "a", "t", "a", ":", "i", "m", "a", "g", "e">>)
             THEN Done(h, splitSecond(imageUrl.v))
             ELSE Done(h, imageUrl)
\* generateVisual, lines 270-307: from the end of executeGenericRequest (frame f).
AfterExecuteVisual(g, f) ==
    IF f.pc = "failed" THEN Fail(g, Wrapped(g.config, f.error))
    ELSE LET endpointDef == IF StatusEndpoint(g.config) # Undefined
                            THEN StatusEndpoint(g.config) ELSE GenerateEndpoint(g.config)
             resultPath == OutputPath(endpointDef, sImage, sImageUrl)
             imageUrl == resolvePath(f.result, resultPath)
             h == [g EXCEPT !.imageUrl = imageUrl]
         IN  IF ~Truthy(imageUrl) THEN Fail(h, Wrapped(g.config, ExtractImageError))
             ELSE IF imageUrl.t # "str" THEN Fail(h, Wrapped(g.config, StartsWithNotAFunction))
             ELSE IF startsWith(imageUrl.v, <<"h", "t", "t", "p">>)
             THEN [h EXCEPT !.pc = "awaitImage", !.imageFetches = 1]
             ELSE IF startsWith(imageUrl.v, <<"d", "a", "t", "a", ":", "i", "m", "a", "g", "e">>)
             THEN Done(h, splitSecond(imageUrl.v))
             ELSE Done(h, imageUrl)

\* generateVisual, lines 287-288: fetch(imageUrl) has settled; imgResp.blob().
AfterImage(g, resp) ==
    IF resp.kind = "error" THEN Fail(g, Wrapped(g.config, FetchRejected))
    ELSE [g EXCEPT !.pc = "reading", !.blob = resp]

\* generateVisual, lines 289-297: the promise the function returns, without
\* awaiting it, from inside the try block: resolved by reader.onloadend with
\* the part of the data URL after the comma, rejected by reader.onerror with
\* the reader's error event.
AfterReader(g, loaded) ==
    IF loaded THEN Done(g, splitSecond(DataUrl(g.blob)))
    ELSE Fail(g, ReaderErrorEvent)

InitFacadeVars ==
    /\ calls = <<>>
    /\ generations = <<>>
    /\ localStorage \in FacadeStores
    /\ apiKeys = InitialApiKeys(localStorage)

IsNativeWithoutEndpoints(config) == config.endpoints = Undefined
\* config.provider === 'google_native'
IsNative(config) == config.provider = "google_native"

\* generateText(prompt, config) is called and runs to its first await: the
\* import on the native path, executeGenericRequest on the generic one.
generateText(c, prompt, config) ==
    /\ c \notin DOMAIN generations
    /\ IF IsNative(config)
       THEN /\ generations' = generations @@
                   (c :> [BlankGeneration("text", prompt, config) EXCEPT
                             !.pc = "awaitImport", !.imports = 1])
            /\ UNCHANGED calls
       ELSE /\ generations' = generations @@
                   (c :> [BlankGeneration("text", prompt, config) EXCEPT
                             !.pc = "awaitExecute"])
            /\ calls' = calls @@
                   (c :> ExecuteToFetch(config, PromptInputs(prompt), localStorage))
    /\ UNCHANGED <<localStorage, apiKeys>>

\* generateVisual(prompt, config) is called and runs to its first await, or
\* hands the call to geminiService on the native path.
generateVisual(c, prompt, config) ==
    /\ c \notin DOMAIN generations
    /\ IF IsNative(config)
       THEN /\ generations' = generations @@
                   (c :> [BlankGeneration("visual", prompt, config) EXCEPT
                             !.pc = "delegated"])
            /\ UNCHANGED calls
       ELSE /\ generations' = generations @@
                   (c :> [BlankGeneration("visual", prompt, config) EXCEPT
                             !.pc = "awaitExecute"])
            /\ calls' = calls @@
                   (c :> ExecuteToFetch(config, PromptInputs(prompt), localStorage))
    /\ UNCHANGED <<localStorage, apiKeys>>

\* The import of the SDK settles.
ImportSettled(c, ok) ==
    /\ c \in DOMAIN generations
    /\ generations[c].pc = "awaitImport"
    /\ generations' = [generations EXCEPT ![c] = AfterImport(@, ok, localStorage)]
    /\ UNCHANGED <<calls, localStorage, apiKeys>>

\* generateContent settles.
NativeResponded(c, resp) ==
    /\ c \in DOMAIN generations
    /\ generations[c].pc = "awaitNative"
    /\ generations' = [generations EXCEPT ![c] = AfterNative(@, resp)]
    /\ UNCHANGED <<calls, localStorage, apiKeys>>

\* executeGenericRequest has returned or thrown: the operation goes on.
ExecuteSettled(c) ==
    /\ c \in DOMAIN generations
    /\ generations[c].pc = "awaitExecute"
    /\ calls[c].pc \in {"done", "failed"}
    /\ generations' = [generations EXCEPT ![c] =
                          IF @.op = "text" THEN AfterExecuteText(@, calls[c])
                          ELSE AfterExecuteVisual(@, calls[c])]
    /\ UNCHANGED <<calls, localStorage, apiKeys>>

\* fetch(imageUrl) settles.
ImageResponded(c, resp) ==
    /\ c \in DOMAIN generations
    /\ generations[c].pc = "awaitImage"
    /\ generations' = [generations EXCEPT ![c] = AfterImage(@, resp)]
    /\ UNCHANGED <<calls, localStorage, apiKeys>>

\* The FileReader ends: it has loaded the blob, or it reports an error.
ReaderEnded(c, loaded) ==
    /\ c \in DOMAIN generations
    /\ generations[c].pc = "reading"
    /\ generations' = [generations EXCEPT ![c] = AfterReader(@, loaded)]
    /\ UNCHANGED <<calls, localStorage, apiKeys>>

InitFacade == IdleRegistryVars /\ IdlePayloadVars /\ InitFacadeVars /\ IdleExtractVars /\ IdleSceneVars

NextFacade ==
    \/ (\E prompt \in Prompts, config \in FacadeConfigs : generateText(1, prompt, config))
          /\ UNCHANGED <<registryVars, payloadVars, extractVars, sceneVars>>
    \/ (\E prompt \in Prompts, config \in FacadeConfigs : generateVisual(1, prompt, config))
          /\ UNCHANGED <<registryVars, payloadVars, extractVars, sceneVars>>
    \/ (\E ok \in BOOLEAN : ImportSettled(1, ok))
          /\ UNCHANGED <<registryVars, payloadVars, extractVars, sceneVars>>
    \/ (\E resp \in NativeResponses : NativeResponded(1, resp))
          /\ UNCHANGED <<registryVars, payloadVars, extractVars, sceneVars>>
    \/ /\ 1 \in DOMAIN calls
       /\ \E resp \in FacadeGenerateResponses(calls[1].config) : GenerateResponded(1, resp)
       /\ UNCHANGED <<registryVars, payloadVars, extractVars, sceneVars>>
    \/ SleepElapsed(1) /\ UNCHANGED <<registryVars, payloadVars, extractVars, sceneVars>>
    \/ (\E resp \in FacadeStatusResponses : StatusResponded(1, resp))
          /\ UNCHANGED <<registryVars, payloadVars, extractVars, sceneVars>>
    \/ ExecuteSettled(1) /\ UNCHANGED <<registryVars, payloadVars, extractVars, sceneVars>>
    \/ (\E resp \in ImageResponses : ImageResponded(1, resp))
          /\ UNCHANGED <<registryVars, payloadVars, extractVars, sceneVars>>
    \/ (\E loaded \in BOOLEAN : ReaderEnded(1, loaded))
          /\ UNCHANGED <<registryVars, payloadVars, extractVars, sceneVars>>

SpecFacade == InitFacade /\ [][NextFacade]_vars

(***************************************************************************)
(* Claims about generateText and generateVisual (checked under SpecFacade) *)
(***************************************************************************)
\* The call is on the generic path.
Generic(g) == g.config.provider # "google_native"
Ended(g) == g.pc \in {"done", "failed"}

\* generate.outputMapping['text'], 'text' when there is none.
ClaimedTextPath(config) ==
    LET m == config.endpoints.generate.outputMapping
    IN  IF m # Undefined /\ sText \in DOMAIN m THEN m[sText] ELSE sText

\* C16: a generic generateText never returns anything but a string; once
\* executeGenericRequest has returned a response and generateText has ended,
\* it has returned the value at generate.outputMapping['text'] (default
\* 'text') of that response if that value is a string, and has otherwise
\* failed with the extraction error.
C16_TextIsExtractedString ==
    \A c \in DOMAIN generations :
        LET g == generations[c]
        IN  (g.op = "text" /\ Generic(g)) =>
                /\ g.pc = "done" => (g.result.t = "str" /\ calls[c].pc = "done")
                /\ (Ended(g) /\ calls[c].pc = "done") =>
                      LET v == resolvePath(calls[c].result, ClaimedTextPath(g.config))
                      IN  IF v.t = "str"
                          THEN g.pc = "done" /\ g.result = v
                          ELSE g.pc = "failed" /\ g.error.cause = ExtractTextError

\* The spec's end-to-end scenario: {choices:[{message:{content:"Hello"}}]}
\* read at choices[0].message.content gives "Hello".
C16_Witness ==
    /\ 1 \in DOMAIN generations
    /\ generations[1].op = "text"
    /\ generations[1].config.name = "Chat"
    /\ calls[1].result = ChatDoc
    /\ generations[1].pc = "done"
    /\ generations[1].result = Str(<<"H", "e", "l", "l", "o">>)

\* A polling provider's text, read from the final status response, and the
\* extraction error for a text that is a number.
TextFromPollReached ==
    /\ 1 \in DOMAIN generations /\ 1 \in DOMAIN calls
    /\ generations[1].op = "text"
    /\ generations[1].config.name = "Async"
    /\ calls[1].returnedBy = "poll"
    /\ generations[1].result = Str(sHello)
TextNotAStringReached ==
    /\ 1 \in DOMAIN generations /\ 1 \in DOMAIN calls
    /\ generations[1].op = "text"
    /\ calls[1].pc = "done"
    /\ calls[1].result = ResultDoc(Num(3), Undefined)
    /\ generations[1].error = Wrapped(generations[1].config, ExtractTextError)

\* The error carries the model's display name.
CarriesModelName(g) ==
    /\ "model" \in DOMAIN g.error
    /\ g.error.model = g.config.name
    /\ g.error.message = "[model] Error: cause"

\* C17: every failure of a generic generateText or generateVisual reaches
\* the caller as one error that carries the model's display name.
C17_FailuresAreWrapped ==
    \A c \in DOMAIN generations :
        LET g == generations[c]
        IN  (Generic(g) /\ g.pc = "failed") => CarriesModelName(g)

\* What the code does keep of this: every failure but the FileReader's is
\* wrapped, among them the six origins the claim lists.
FailuresButReaderAreWrapped ==
    \A c \in DOMAIN generations :
        LET g == generations[c]
        IN  (Generic(g) /\ g.pc = "failed" /\ g.error # ReaderErrorEvent) =>
                /\ CarriesModelName(g)
                /\ calls[c].pc = "failed" => g.error.cause = calls[c].error
OriginsReached ==
    /\ 1 \in DOMAIN generations /\ 1 \in DOMAIN calls
    /\ generations[1].pc = "failed"
    /\ CarriesModelName(generations[1])
    /\ generations[1].error.cause = TimeoutError

\* Nothing, or the empty string, is stored under gemini_api_key.
NativeCredentialMissing(store) ==
    "gemini_api_key" \notin DOMAIN store \/ store["gemini_api_key"] = <<>>

NativeRequestReached ==
    /\ 1 \in DOMAIN generations
    /\ generations[1].pc = "done"
    /\ generations[1].nativeRequests = 1
    /\ generations[1].apiKey = <<"G">>

\* An http(s) URL; a data:image URI with a payload after its header.
IsHttpUrl(s) == startsWith(s, <<"h", "t", "t", "p", ":", "/", "/">>) \/ startsWith(s, <<"h", "t", "t", "p", "s", ":", "/", "/">>)
IsDataImageUri(s) == startsWith(s, <<"d", "a", "t", "a", ":", "i", "m", "a", "g", "e">>) /\ indexOf(s, <<",">>) > 0
PayloadAfterHeader(s) == SubSeq(s, indexOf(s, <<",">>) + 1, Len(s))

\* The image value is a non-empty string and generateVisual has looked at it.
HasImageString(g) ==
    g.op = "visual" /\ Generic(g) /\ g.imageUrl.t = "str" /\ g.imageUrl.v # <<>>

\* C19: generateVisual treats a non-empty image string in exactly three
\* ways: an http(s) URL is fetched (once) and what is returned is the base64
\* of the bytes fetched; a data:image URI gives its payload after the
\* header, without a fetch; any other string is returned as it is, without
\* a fetch.
C19_ThreeShapes ==
    \A c \in DOMAIN generations :
        LET g == generations[c]
            s == g.imageUrl.v
        IN  HasImageString(g) =>
                IF IsHttpUrl(s)
                THEN /\ g.imageFetches = 1
                     /\ g.pc = "done" => g.result = Str(Base64(g.blob.bytes))
                ELSE IF IsDataImageUri(s)
                THEN g.pc = "done" /\ g.imageFetches = 0 /\ g.result = Str(PayloadAfterHeader(s))
                ELSE IF startsWith(s, <<"d", "a", "t", "a", ":", "i", "m", "a", "g", "e">>)
                THEN g.imageFetches = 0
                ELSE g.pc = "done" /\ g.imageFetches = 0 /\ g.result = g.imageUrl

\* What the code does keep of this: the same three ways, told apart by the
\* prefixes "http" and "data:image".
ThreeShapesByPrefix ==
    \A c \in DOMAIN generations :
        LET g == generations[c]
            s == g.imageUrl.v
        IN  HasImageString(g) =>
                IF startsWith(s, <<"h", "t", "t", "p">>)
                THEN /\ g.imageFetches = 1
                     /\ g.pc = "done" => g.result = Str(Base64(g.blob.bytes))
                ELSE IF IsDataImageUri(s)
                THEN g.pc = "done" /\ g.imageFetches = 0 /\ g.result = Str(PayloadAfterHeader(s))
                ELSE IF startsWith(s, <<"d", "a", "t", "a", ":", "i", "m", "a", "g", "e">>)
                THEN g.pc = "done" /\ g.imageFetches = 0 /\ g.result = Undefined
                ELSE g.pc = "done" /\ g.imageFetches = 0 /\ g.result = g.imageUrl
ShapesReached ==
    /\ 1 \in DOMAIN generations
    /\ generations[1].imageUrl = Str(<<"h", "t", "t", "p", "s", ":", "/", "/", "y">>)
    /\ generations[1].pc = "done"
    /\ generations[1].result = Str(<<"Q", "U", "J", "D">>)
    /\ generations[1].blob.bytes = <<65, 66, 67>>
PaddedBase64Reached ==
    /\ 1 \in DOMAIN generations
    /\ generations[1].pc = "done"
    /\ generations[1].imageFetches = 1
    /\ generations[1].result = Str(<<"P", "A", "=", "=">>)

(***************************************************************************)
(* resolvePath as a function of its arguments (SpecExtract)                *)
(***************************************************************************)
MaxSegments == 3    \* longest path, in segments

\* A path is written from segments: plain keys and bracketed indices.
Key(name) == [kind |-> "key", name |-> name]
Index(n) == [kind |-> "index", n |-> n]
Segments == {Key(<<"a">>), Key(<<"b">>), Key(<<"c">>), Index(0), Index(1)}

RECURSIVE SegmentSeqs(_)
SegmentSeqs(n) ==
    IF n = 0 THEN {<<>>}
    ELSE {<<>>} \cup {Append(p, s) : p \in SegmentSeqs(n - 1) \ {<<>>}, s \in Segments}
                 \cup {<<s>> : s \in Segments}

\* The path expression of a sequence of segments, as a configuration writes
\* it: a.b[0].c
RECURSIVE Render(_)
Render(segs) ==
    IF segs = <<>> THEN <<>>
    ELSE LET init == SubSeq(segs, 1, Len(segs) - 1)
             last == segs[Len(segs)]
         IN  Render(init) \o
             (IF last.kind = "index" THEN <<"[">> \o <<DIGITS[last.n + 1]>> \o <<"]">>
              ELSE IF init = <<>> THEN last.name
              ELSE <<".">> \o last.name)

\* The paths resolvePath is applied to, as segments: all up to MaxSegments
\* long, and a.b[0].c
PathSegments ==
    (SegmentSeqs(MaxSegments) \ {<<>>}) \cup {<<Key(<<"a">>), Key(<<"b">>), Index(0), Key(<<"c">>)>>}

PathExpressions == {Render(segs) : segs \in PathSegments}

\* The responses resolvePath is applied to.
ResponseObjects ==
    {Obj(<<"a">> :> Obj(<<"b">> :> Arr(<<Obj(<<"c">> :> Num(5))>>))),
     Obj(<<>>),
     Obj(<<"a">> :> Null @@ <<"b">> :> Arr(<<>>) @@ <<"c">> :> Str(<<"x", "y">>)),
     Obj(<<"a">> :> Arr(<<Num(1), Arr(<<Num(2), Obj(<<"b">> :> Bool(FALSE))>>)>>)),
     Obj(<<"a", ".", "b">> :> Num(1) @@ <<"a">> :> Obj(<<"b">> :> Num(2))),
     Obj(<<"a">> :> Obj(<<"0">> :> Str(<<"z", "e", "r", "o">>)) @@ <<"b", "[", "0", "]">> :> Num(7) @@ <<"b">> :> Arr(<<Num(8)>>)),
     Arr(<<Obj(<<"a">> :> Num(0)), Arr(<<Str(<<"s">>)>>)>>),
     Null}

InitExtractVars ==
    /\ responseObject \in ResponseObjects
    /\ pathExpression \in PathExpressions
    /\ extracted = [called |-> FALSE]

\* resolvePath(responseObject, pathExpression) is called and returns.
ResolvePathCall ==
    /\ ~extracted.called
    /\ extracted' = [called |-> TRUE, value |-> resolvePath(responseObject, pathExpression)]
    /\ UNCHANGED <<responseObject, pathExpression>>

InitExtract == IdleRegistryVars /\ IdlePayloadVars /\ IdleGatewayVars /\ InitExtractVars /\ IdleSceneVars

NextExtract == ResolvePathCall /\ UNCHANGED <<registryVars, payloadVars, gatewayVars, sceneVars>>

SpecExtract == InitExtract /\ [][NextExtract]_vars

(***************************************************************************)
(* Claims about resolvePath (checked under SpecExtract)                    *)
(***************************************************************************)
\* The segments a path expression was written from.
SegmentsOf(p) == CHOOSE segs \in PathSegments : Render(segs) = p

\* One segment read from a value, as JavaScript reads a property: a key from
\* an object, an index from an array, a string or an object.
Step(o, seg) ==
    IF seg.kind = "key"
    THEN IF o.t = "obj" THEN Prop(o.v, seg.name) ELSE Undefined
    ELSE CASE o.t = "arr" -> IF seg.n < Len(o.v) THEN o.v[seg.n + 1] ELSE Undefined
           [] o.t = "str" -> IF seg.n < Len(o.v) THEN Str(<<o.v[seg.n + 1]>>) ELSE Undefined
           [] o.t = "obj" -> Prop(o.v, <<DIGITS[seg.n + 1]>>)
           [] OTHER -> Undefined

\* The value reached by following the segments, undefined as soon as one is
\* to be read from nothing.
RECURSIVE Follow(_, _)
Follow(o, segs) ==
    IF segs = <<>> THEN o
    ELSE IF o = Undefined \/ o = Null THEN Undefined
    ELSE Follow(Step(o, Head(segs)), Tail(segs))

\* C20 as stated: resolvePath returns the value reached by following the
\* path's keys and indices, undefined when a segment on the way is missing.
C20_FollowsPath ==
    extracted.called =>
        extracted.value = Follow(responseObject, SegmentsOf(pathExpression))

\* The response has itself a property named by the whole path expression.
HasPathAsKey(o, p) == o.t = "obj" /\ p \in DOMAIN o.v

\* C20, amended: resolvePath returns the response's own property named by
\* the whole path expression when it has one, and otherwise the value
\* reached by following the path's keys and indices, undefined when a
\* segment on the way is missing.
C20_FollowsPathUnlessKey ==
    extracted.called =>
        extracted.value =
            IF HasPathAsKey(responseObject, pathExpression)
            THEN responseObject.v[pathExpression]
            ELSE Follow(responseObject, SegmentsOf(pathExpression))

\* The spec's example: a.b[0].c of {a:{b:[{c:5}]}} is 5.
C20_Witness ==
    /\ extracted.called
    /\ responseObject = Obj(<<"a">> :> Obj(<<"b">> :> Arr(<<Obj(<<"c">> :> Num(5))>>)))
    /\ pathExpression = <<"a", ".", "b", "[", "0", "]", ".", "c">>
    /\ extracted.value = Num(5)

\* a.b of {} is undefined; a.b of {"a.b": 1, a: {b: 2}} is 1.
MissingSegmentReached ==
    /\ extracted.called
    /\ responseObject = Obj(<<>>)
    /\ pathExpression = <<"a", ".", "b">>
    /\ extracted.value = Undefined
DottedKeyReached ==
    /\ extracted.called
    /\ pathExpression = <<"a", ".", "b">>
    /\ responseObject = Obj(<<"a", ".", "b">> :> Num(1) @@ <<"a">> :> Obj(<<"b">> :> Num(2)))
    /\ extracted.value = Num(1)

(***************************************************************************)
(* Claims about the dispatch on the provider (checked under SpecFacade)    *)
(***************************************************************************)
\* The call went down the native path: it imported the SDK, or handed the
\* call to geminiService.
TookNativePath(g) == g.imports > 0 \/ g.nativeRequests > 0 \/ g.pc = "delegated"

\* C21: generateText and generateVisual take the native path if and only if
\* config.provider is exactly google_native; a google_native call has no
\* executeGenericRequest frame, hence no generate and no status request, and
\* a call with any other provider has one.
C21_ProviderDispatch ==
    \A c \in DOMAIN generations :
        LET g == generations[c]
        IN  /\ TookNativePath(g) <=> g.config.provider = "google_native"
            /\ g.config.provider = "google_native" => c \notin DOMAIN calls
            /\ g.config.provider # "google_native" =>
                  /\ c \in DOMAIN calls
                  /\ calls[c].config = g.config
                  /\ calls[c].inputs = PromptInputs(g.prompt)

\* A provider named Google_Native is not the native one: its request went
\* to the generic generate endpoint.
C21_Witness ==
    /\ 1 \in DOMAIN generations /\ 1 \in DOMAIN calls
    /\ generations[1].config.provider = "Google_Native"
    /\ ~TookNativePath(generations[1])
    /\ calls[1].generateRequests = 1

\* Both operations reach their native path, with no generic call.
NativeDispatchReached ==
    /\ 1 \in DOMAIN generations
    /\ generations[1].op = "visual" /\ generations[1].pc = "delegated"
    /\ calls = <<>>

(***************************************************************************)
(* Credentials updated while calls are in flight (SpecCredential)          *)
(*                                                                         *)
(* Up to MaxCalls calls of executeGenericRequest run interleaved with each *)
(* other and with updateApiKey; the status endpoint follows the script.    *)
(***************************************************************************)
MaxCalls == 2       \* calls of executeGenericRequest in one behaviour

StorageKeyGeneric(provider) == "apikey_" \o provider
\* The localStorage key updateApiKey writes for a provider.
StorageKey(provider) ==
    IF provider = "google_native" THEN "gemini_api_key" ELSE "apikey_" \o provider

\* obj with obj[k] = v: { ...obj, [k]: v } and Storage.setItem(k, v)
With(obj, k, v) == [x \in DOMAIN obj \cup {k} |-> IF x = k THEN v ELSE obj[x]]

\* updateApiKey(provider, key) of the store
updateApiKey(provider, key) ==
    /\ localStorage' = With(localStorage, StorageKey(provider), key)
    /\ apiKeys' = With(apiKeys, provider, key)
    /\ UNCHANGED <<calls, generations>>

\* What the settings page saves: a new key, or the emptied field.
SavedKeys == {<<"K", "2">>, <<>>}
SavedProviders == {"kie", "comfyui"}

PollingConfigs == {config \in Configs : UsesPolling(config) /\ GenerateEndpoint(config) # Undefined}

\* The answers of a provider that hands out a task, or is not reached.
TaskResponses ==
    {NetworkError,
     Response(TRUE, 200, "{id:t1,text:hello}",
              Obj(sId :> Str(sT1) @@ sText :> Str(<<"h", "e", "l", "l", "o">>))),
     Response(TRUE, 200, "{task:{id:t1}}", Obj(sTask :> Obj(sId :> Str(sT1))))}

NextCredential ==
    \/ (\E c \in 1..MaxCalls, config \in PollingConfigs, ins \in CallInputs :
            ExecuteGenericRequest(c, config, ins))
          /\ UNCHANGED <<registryVars, payloadVars, extractVars, sceneVars>>
    \/ (\E c \in 1..MaxCalls, resp \in TaskResponses : GenerateResponded(c, resp))
          /\ UNCHANGED <<registryVars, payloadVars, extractVars, sceneVars>>
    \/ (\E c \in 1..MaxCalls : SleepElapsed(c))
          /\ UNCHANGED <<registryVars, payloadVars, extractVars, sceneVars>>
    \/ (\E c \in DOMAIN calls :
            /\ calls[c].pc = "awaitStatus"
            /\ calls[c].statusRequests \in 1..Len(Script)
            /\ StatusResponded(c, ScriptedResponse(calls[c].config, calls[c].statusRequests)))
          /\ UNCHANGED <<registryVars, payloadVars, extractVars, sceneVars>>
    \/ (\E provider \in SavedProviders, key \in SavedKeys : updateApiKey(provider, key))
          /\ UNCHANGED <<registryVars, payloadVars, extractVars, sceneVars>>

SpecCredential == InitGateway /\ [][NextCredential]_vars

\* The credential stored for the provider of a config, as getItem gives it.
StoredCredential(store, config) ==
    IF ("apikey_" \o config.provider) \in DOMAIN store
    THEN Str(store["apikey_" \o config.provider]) ELSE Null

\* The Auth header a request of the fixture endpoints carries for a
\* credential: "B " and the credential, nothing after "B " without one.
AuthFor(credential) ==
    sAuth :> (<<"B", " ">> \o (IF credential = Null THEN <<>> ELSE credential.v))

\* C22: the credential is read from the store once, when the call starts: a
\* starting call holds what the store holds at that moment; from then on
\* the credential of the call never changes, whatever updateApiKey writes,
\* and every status request the call issues carries, in its headers, the
\* credential read at the start.
C22_CredentialReadAtCallStart ==
    [][\A c \in DOMAIN calls' :
          IF c \notin DOMAIN calls
          THEN /\ calls'[c].apiKey = StoredCredential(localStorage, calls'[c].config)
               /\ calls'[c].headers # <<>> => calls'[c].headers = AuthFor(calls'[c].apiKey)
          ELSE /\ calls'[c].apiKey = calls[c].apiKey
               /\ (calls'[c].statusRequests > calls[c].statusRequests
                      /\ StatusEndpoint(calls[c].config).headers # Undefined) =>
                     calls'[c].statusHeaders = AuthFor(calls[c].apiKey)]_vars

\* Call 1 read K, the key was then replaced by K2, and call 1 has its last
\* status request out with K while call 2, started since, carries K2.
C22_Witness ==
    /\ DOMAIN calls = {1, 2}
    /\ calls[1].config.name = "Async" /\ calls[2].config.name = "Async"
    /\ "apikey_kie" \in DOMAIN localStorage /\ localStorage["apikey_kie"] = <<"K", "2">>
    /\ calls[1].apiKey = Str(<<"K">>)
    /\ calls[1].pc = "awaitStatus" /\ calls[1].statusRequests = 3
    /\ calls[1].statusHeaders = (sAuth :> <<"B", " ", "K">>)
    /\ calls[2].apiKey = Str(<<"K", "2">>)
    /\ calls[2].pc = "awaitGenerate"
    /\ calls[2].headers = (sAuth :> <<"B", " ", "K", "2">>)

(***************************************************************************)
(* More claims about constructPayload (checked under SpecPayload)          *)
(***************************************************************************)
\* The string is "{{", anything, "}}".
Enclosed(s) ==
    /\ Len(s) >= 4
    /\ s[1] = "{" /\ s[2] = "{" /\ s[Len(s) - 1] = "}" /\ s[Len(s)] = "}"

\* A name: a non-empty string without braces.
IsName(s) == s # <<>> /\ \A k \in 1..Len(s) : s[k] \notin {"{", "}"}

\* The string is exactly {{name}} for a name.
WholeMarker(s) == Enclosed(s) /\ IsName(SubSeq(s, 3, Len(s) - 2))

\* p is m with nothing changed but strings for which Exempt holds, at any
\* depth; Exempt is 1 for the enclosed strings, 2 for the whole markers.
RECURSIVE VerbatimBut(_, _, _)
VerbatimBut(m, p, exempt) ==
    CASE m.t = "str" ->
             \/ p = m
             \/ (exempt = 1 /\ Enclosed(m.v))
             \/ (exempt = 2 /\ WholeMarker(m.v))
      [] m.t = "arr" ->
             /\ p.t = "arr" /\ Len(p.v) = Len(m.v)
             /\ \A i \in 1..Len(m.v) : VerbatimBut(m.v[i], p.v[i], exempt)
      [] m.t = "obj" ->
             /\ p.t = "obj" /\ DOMAIN p.v = DOMAIN m.v
             /\ \A k \in DOMAIN m.v : VerbatimBut(m.v[k], p.v[k], exempt)
      [] OTHER -> p = m

\* C23: constructPayload returns verbatim every string, at any depth of the
\* template, that is not of the whole-string form {{name}}, embedded
\* markers included and whatever inputs defines: always so for a string that
\* is not enclosed in {{ and }}, and, when the keys of inputs are names,
\* also for an enclosed string whose inside is not a name.
C23_EmbeddedMarkersVerbatim ==
    Called =>
        /\ VerbatimBut(mapping, payload, 1)
        /\ (\A k \in DOMAIN inputs : IsName(k)) => VerbatimBut(mapping, payload, 2)

\* y{{x}} with x defined comes back as it is.
C23_Witness ==
    /\ mapping = Str(<<"y">> \o OPEN \o <<"x">> \o CLOSE)
    /\ inputs = (<<"x">> :> Str(<<"y">>))
    /\ payload = mapping

\* An enclosed string that is not a marker, {{}}, comes back as it is when
\* x and y are defined.
EnclosedNonMarkerReached ==
    /\ mapping = Str(OPEN \o CLOSE)
    /\ inputs = (<<"x">> :> Num(2) @@ <<"y">> :> Bool(TRUE))
    /\ payload = mapping

(***************************************************************************)
(* URL and header templates (SpecTemplating)                               *)
(*                                                                         *)
(* executeGenericRequest and pollForCompletion on configurations whose     *)
(* generate URL and header values are put together from literal text and   *)
(* {{...}} tokens, up to MaxPieces pieces each.                            *)
(***************************************************************************)
MaxPieces == 3      \* pieces of a URL or header template

Literal(text) == [token |-> FALSE, text |-> text]
Token(name) == [token |-> TRUE, text |-> name]

\* Pieces of a URL: text, the tokens id and key, and a token no input defines.
UrlPieces == {Literal(<<"u", "/">>), Token(sId), Token(sKey), Token(<<"z", "z">>)}

\* Pieces of a header value.
HeaderPieces == {Literal(<<"B", " ">>), Token(sKey), Token(sId)}

\* The template a sequence of pieces spells.
RECURSIVE Flatten(_)
Flatten(pieces) ==
    IF pieces = <<>> THEN <<>>
    ELSE (IF Head(pieces).token THEN OPEN \o Head(pieces).text \o CLOSE
          ELSE Head(pieces).text) \o Flatten(Tail(pieces))

TemplatedConfig(url, headers) ==
    [id |-> <<"c", "9">>, name |-> "Templated", provider |-> "kie",
     endpoints |->
        [generate |-> [url |-> url, method |-> "POST", headers |-> headers,
                       paramMapping |-> Obj(<<"m">> :> Str(OPEN \o sId \o CLOSE)
                                            @@ <<"p">> :> Str(OPEN \o sPrompt \o CLOSE)
                                            @@ <<"v">> :> Str(<<"v", "-">> \o OPEN \o sId \o CLOSE)),
                       outputMapping |-> Undefined],
         status |-> [url |-> <<"s", "/">> \o OPEN \o sId \o CLOSE, method |-> "GET",
                     headers |-> headers, paramMapping |-> Undefined,
                     outputMapping |-> Undefined]]]

TemplatedConfigs ==
    {TemplatedConfig(Flatten(p), Undefined) : p \in SeqsUpTo(UrlPieces, MaxPieces)}
    \cup {TemplatedConfig(<<"u">>, sAuth :> Flatten(p)) : p \in SeqsUpTo(HeaderPieces, MaxPieces)}

\* The inputs of the call: { prompt }, and inputs that bring an id or a key
\* of their own.
TemplateInputs ==
    {sPrompt :> Str(<<"h", "i">>),
     sPrompt :> Str(<<"h", "i">>) @@ sId :> Str(<<"x", "9">>),
     sPrompt :> Str(<<"h", "i">>) @@ sKey :> Str(<<"I", "K">>)}

\* The credential store: nothing stored, a key, and the key field saved empty.
TemplatingStores == {<<>>, "apikey_kie" :> <<"K">>, "apikey_kie" :> <<>>}

InitTemplatingVars ==
    /\ calls = <<>>
    /\ localStorage \in TemplatingStores
    /\ generations = <<>>
    /\ apiKeys = InitialApiKeys(localStorage)

InitTemplating ==
    IdleRegistryVars /\ IdlePayloadVars /\ InitTemplatingVars /\ IdleExtractVars /\ IdleSceneVars

NextTemplating ==
    \/ (\E config \in TemplatedConfigs, ins \in TemplateInputs :
            ExecuteGenericRequest(1, config, ins))
          /\ UNCHANGED <<registryVars, payloadVars, extractVars, sceneVars>>
    \/ (\E resp \in TaskResponses : GenerateResponded(1, resp))
          /\ UNCHANGED <<registryVars, payloadVars, extractVars, sceneVars>>
    \/ SleepElapsed(1) /\ UNCHANGED <<registryVars, payloadVars, extractVars, sceneVars>>
    \/ /\ 1 \in DOMAIN calls
       /\ calls[1].pc = "awaitStatus"
       /\ calls[1].statusRequests \in 1..Len(Script)
       /\ StatusResponded(1, ScriptedResponse(calls[1].config, calls[1].statusRequests))
       /\ UNCHANGED <<registryVars, payloadVars, extractVars, sceneVars>>

SpecTemplating == InitTemplating /\ [][NextTemplating]_vars

(***************************************************************************)
(* Claims about the templates (checked under SpecTemplating)               *)
(***************************************************************************)
\* What the pieces of a URL template resolve to, as the spec has it: the
\* model's id for id, the input of that name if the inputs have one, the
\* credential for key if there is one, and the token itself otherwise.
RECURSIVE ResolvedUrl(_, _, _, _)
ResolvedUrl(pieces, ins, id, credential) ==
    IF pieces = <<>> THEN <<>>
    ELSE LET p == Head(pieces)
             text == IF ~p.token THEN p.text
                     ELSE IF p.text = sId THEN id
                     ELSE IF p.text \in DOMAIN ins THEN ins[p.text].v
                     ELSE IF p.text = sKey /\ credential # <<>> THEN credential
                     ELSE OPEN \o p.text \o CLOSE
         IN  text \o ResolvedUrl(Tail(pieces), ins, id, credential)

\* The credential stored for the provider of the config, <<>> when none is.
CredentialOf(store, config) ==
    IF StoredCredential(store, config) = Null THEN <<>>
    ELSE StoredCredential(store, config).v

\* C24: whatever the inputs, also when they bring an id of their own, {{id}}
\* resolves to config.id: in the request body built from paramMapping, and
\* at every place of a generate URL made of text and {{id}} tokens.
C24_ModelIdWins ==
    \A c \in DOMAIN calls :
        LET f == calls[c]
            generate == f.config.endpoints.generate
        IN  /\ f.body = Obj(<<"m">> :> Str(f.config.id)
                            @@ <<"p">> :> f.inputs[sPrompt]
                            @@ <<"v">> :> Str(<<"v", "-">> \o OPEN \o sId \o CLOSE))
            /\ \A pieces \in SeqsUpTo({Literal(<<"u", "/">>), Token(sId)}, MaxPieces) :
                  generate.url = Flatten(pieces) =>
                      f.finalUrl = ResolvedUrl(pieces, <<>>, f.config.id, <<>>)

\* The inputs carry the id x9; the body and the URL {{id}}u/{{id}} carry c9.
C24_Witness ==
    /\ 1 \in DOMAIN calls
    /\ calls[1].inputs = (sPrompt :> Str(<<"h", "i">>) @@ sId :> Str(<<"x", "9">>))
    /\ calls[1].config.endpoints.generate.url = OPEN \o sId \o CLOSE \o <<"u", "/">> \o OPEN \o sId \o CLOSE
    /\ calls[1].finalUrl = <<"c", "9", "u", "/", "c", "9">>
    /\ calls[1].body.v[<<"m">>] = Str(<<"c", "9">>)

\* C25: in the URL the generate request goes to, every {{token}} of the
\* generate URL, embedded or repeated, is replaced by requestInputs[token]
\* when that is defined, otherwise by the stored credential when the token
\* is key and a credential is stored, otherwise left as it is; an input
\* named key goes before the credential.
C25_UrlTokens ==
    \A c \in DOMAIN calls :
        LET f == calls[c]
        IN  f.pc = "awaitGenerate" =>
                \A pieces \in SeqsUpTo(UrlPieces, MaxPieces) :
                    f.config.endpoints.generate.url = Flatten(pieces) =>
                        f.finalUrl = ResolvedUrl(pieces, f.inputs, f.config.id,
                                                 CredentialOf(localStorage, f.config))

\* {{key}}u/{{key}} with the credential K stored and the input key IK.
C25_Witness ==
    /\ 1 \in DOMAIN calls
    /\ localStorage = ("apikey_kie" :> <<"K">>)
    /\ calls[1].inputs = (sPrompt :> Str(<<"h", "i">>) @@ sKey :> Str(<<"I", "K">>))
    /\ calls[1].config.endpoints.generate.url = OPEN \o sKey \o CLOSE \o <<"u", "/">> \o OPEN \o sKey \o CLOSE
    /\ calls[1].finalUrl = <<"I", "K", "u", "/", "I", "K">>

\* The credential is used for both {{key}} tokens, and a token no input
\* defines stays.
UrlCredentialTwiceReached ==
    /\ 1 \in DOMAIN calls
    /\ localStorage = ("apikey_kie" :> <<"K">>)
    /\ calls[1].inputs = (sPrompt :> Str(<<"h", "i">>))
    /\ calls[1].config.endpoints.generate.url
         = OPEN \o sKey \o CLOSE \o OPEN \o sKey \o CLOSE \o OPEN \o <<"z", "z">> \o CLOSE
    /\ calls[1].finalUrl = <<"K", "K">> \o OPEN \o <<"z", "z">> \o CLOSE

\* A key saved empty leaves {{key}} in the URL.
UrlKeyLeftReached ==
    /\ 1 \in DOMAIN calls
    /\ localStorage = ("apikey_kie" :> <<>>)
    /\ calls[1].inputs = (sPrompt :> Str(<<"h", "i">>))
    /\ calls[1].config.endpoints.generate.url = OPEN \o sKey \o CLOSE \o <<"u", "/">>
    /\ calls[1].finalUrl = calls[1].config.endpoints.generate.url

\* What the pieces of a header value resolve to, as the spec has it: the
\* credential for every {{key}}, everything else as it is.
RECURSIVE ResolvedHeader(_, _)
ResolvedHeader(pieces, credential) ==
    IF pieces = <<>> THEN <<>>
    ELSE LET p == Head(pieces)
         IN  (IF p.token /\ p.text = sKey THEN credential
              ELSE IF p.token THEN OPEN \o p.text \o CLOSE
              ELSE p.text) \o ResolvedHeader(Tail(pieces), credential)

\* The same with the credential put in for the first {{key}} only.
RECURSIVE ResolvedHeaderOnce(_, _)
ResolvedHeaderOnce(pieces, credential) ==
    IF pieces = <<>> THEN <<>>
    ELSE LET p == Head(pieces)
         IN  IF p.token /\ p.text = sKey THEN credential \o Flatten(Tail(pieces))
             ELSE (IF p.token THEN OPEN \o p.text \o CLOSE ELSE p.text)
                      \o ResolvedHeaderOnce(Tail(pieces), credential)

\* The call has built the headers of its generate request and, once it
\* polls, of its status requests, as `resolved` gives them for a template.
HeadersBuilt(f, resolved) ==
    /\ f.generateRequests = 1
    /\ f.headers = (sAuth :> resolved)
    /\ (f.polled /\ f.statusUrl # Undefined) => f.statusHeaders = (sAuth :> resolved)

\* C26: in the headers of the generate request and of the status requests
\* alike, every {{key}} of every header value is replaced by the stored
\* credential, by the empty string when none is stored; no other token is
\* touched, and the call does not fail at this stage for want of a
\* credential.
C26_HeaderKeyEverywhere ==
    \A c \in DOMAIN calls :
        LET f == calls[c]
            headers == f.config.endpoints.generate.headers
        IN  headers # Undefined =>
                \A pieces \in SeqsUpTo(HeaderPieces, MaxPieces) :
                    headers[sAuth] = Flatten(pieces) =>
                        HeadersBuilt(f, ResolvedHeader(pieces,
                                            CredentialOf(localStorage, f.config)))

\* What the code does: the credential replaces the first {{key}} of each
\* header value, and every later one stays.
HeaderKeyFirstOnly ==
    \A c \in DOMAIN calls :
        LET f == calls[c]
            headers == f.config.endpoints.generate.headers
        IN  headers # Undefined =>
                \A pieces \in SeqsUpTo(HeaderPieces, MaxPieces) :
                    headers[sAuth] = Flatten(pieces) =>
                        HeadersBuilt(f, ResolvedHeaderOnce(pieces,
                                            CredentialOf(localStorage, f.config)))

\* The header value {{key}}B {{key}} went out, with the credential K, as
\* KB {{key}}, in the generate request and in the status requests.
SecondKeyLeftReached ==
    /\ 1 \in DOMAIN calls
    /\ localStorage = ("apikey_kie" :> <<"K">>)
    /\ calls[1].config.endpoints.generate.headers # Undefined
    /\ calls[1].config.endpoints.generate.headers[sAuth]
         = OPEN \o sKey \o CLOSE \o <<"B", " ">> \o OPEN \o sKey \o CLOSE
    /\ calls[1].headers = (sAuth :> (<<"K", "B", " ">> \o OPEN \o sKey \o CLOSE))
    /\ calls[1].statusRequests = 1
    /\ calls[1].statusHeaders = calls[1].headers

(***************************************************************************)
(* More claims about the poll (checked under SpecGateway)                  *)
(***************************************************************************)
\* generate.outputMapping['id'], 'id' when there is none.
ClaimedTaskIdPath(config) ==
    LET m == config.endpoints.generate.outputMapping
    IN  IF m # Undefined /\ sId \in DOMAIN m THEN m[sId] ELSE sId

\* A value that is missing or empty: JavaScript's falsy values.
Falsy(v) == v \in {Undefined, Null, Str(<<>>), Num(0), Bool(FALSE)}

\* C27: a call that has entered pollForCompletion has read the task id at
\* generate.outputMapping['id'] (at 'id' without one) of the generate
\* response; when that value is falsy the call has failed with the task-id
\* error without a sleep and without a status request, and when it is not,
\* the call has not failed with that error.
C27_TaskIdOrFail ==
    \A c \in DOMAIN calls :
        LET f == calls[c]
            taskId == resolvePath(f.generated.json, ClaimedTaskIdPath(f.config))
        IN  f.polled =>
                /\ f.taskId = taskId
                /\ IF Falsy(taskId)
                   THEN /\ f.pc = "failed" /\ f.error = TaskIdError
                        /\ f.sleeps = 0 /\ f.statusRequests = 0 /\ f.elapsed = 0
                   ELSE f.error # TaskIdError

\* The response has an id, but not where the config's mapping points
\* (task.id): the poll failed before its first sleep.
C27_Witness ==
    /\ 1 \in DOMAIN calls
    /\ calls[1].config.name = "Async Mapped"
    /\ calls[1].polled
    /\ calls[1].generated.json = Obj(sId :> Str(sT1) @@ sText :> Str(<<"h", "e", "l", "l", "o">>))
    /\ calls[1].error = TaskIdError
    /\ calls[1].sleeps = 0 /\ calls[1].statusRequests = 0

\* The id 0 is refused.
ZeroTaskIdRefusedReached ==
    /\ 1 \in DOMAIN calls
    /\ calls[1].config.name = "Async"
    /\ calls[1].polled
    /\ calls[1].taskId = Num(0) /\ calls[1].error = TaskIdError

\* The id 7 goes into the status URL.
NumericTaskIdReached ==
    /\ 1 \in DOMAIN calls
    /\ calls[1].config.name = "Async"
    /\ calls[1].polled
    /\ calls[1].taskId = Num(7) /\ calls[1].statusUrl = <<"s", "/", "7">>

\* A parsed status response whose extracted status is in neither set.
ReportsNeither(f, resp) ==
    ParsedSuccess(resp) /\ ~ReportsSuccess(f, resp) /\ ~ReportsFailure(f, resp)

\* The answer taken in this step by call c only used up an attempt: the
\* call sleeps before the next one or, after the 60th, ends in the timeout.
StillPending(c) ==
    LET f == calls[c]
        g == calls'[c]
    IN  /\ g.i = f.i + 1
        /\ g.result = Undefined
        /\ IF g.i < MAX_ATTEMPTS THEN g.pc = "sleeping" /\ g.error = Undefined
           ELSE g.pc = "failed" /\ g.error = TimeoutError

\* C28: whatever the extracted status is, if it belongs to neither the
\* success set nor the failure set (an unknown string, a missing value, a
\* value that is not a string), the attempt raises no error and the loop
\* goes on to the next attempt.
C28_AnyOtherStatusIsPending ==
    [][\A c \in DOMAIN calls :
          (StatusAnswered(c) /\ ReportsNeither(calls[c], calls'[c].last)) =>
              StillPending(c)]_vars

\* What the code does: an unknown string, the empty string and a missing or
\* null status leave the call pending.
StringOrMissingStatusIsPending ==
    [][\A c \in DOMAIN calls :
          (/\ StatusAnswered(c)
           /\ ReportsNeither(calls[c], calls'[c].last)
           /\ ExtractedStatus(calls[c], calls'[c].last).t \in {"str", "undefined", "null"}) =>
              StillPending(c)]_vars

\* The status 3 ended the call with a TypeError.
NumericStatusThrowsReached ==
    /\ 1 \in DOMAIN calls
    /\ calls[1].last # Undefined
    /\ ParsedSuccess(calls[1].last)
    /\ ExtractedStatus(calls[1], calls[1].last) = Num(3)
    /\ calls[1].pc = "failed" /\ calls[1].error = NotAFunction

(***************************************************************************)
(* Claims about the image mapping (checked under SpecFacade)               *)
(***************************************************************************)
\* The image path of an endpoint definition: outputMapping['image'],
\* 'image_url' when there is none.
ClaimedImagePath(endpoint) ==
    IF endpoint.outputMapping # Undefined /\ sImage \in DOMAIN endpoint.outputMapping
    THEN endpoint.outputMapping[sImage] ELSE sImageUrl

\* C29: a generic generateVisual whose executeGenericRequest has returned
\* reads the image at the path of the status endpoint's mapping if that
\* call polled and of the generate endpoint's mapping if it did not
\* ('image_url' when the mapping names no image); when the value there is
\* missing or empty the operation has failed with the extraction error, and
\* otherwise it has not.
C29_ImageMappingSource ==
    \A c \in DOMAIN generations :
        LET g == generations[c]
        IN  (g.op = "visual" /\ Generic(g) /\ g.pc # "awaitExecute" /\ calls[c].pc = "done") =>
                LET f == calls[c]
                    endpoint == IF f.polled THEN f.config.endpoints.status
                                ELSE f.config.endpoints.generate
                    image == resolvePath(f.result, ClaimedImagePath(endpoint))
                IN  /\ g.imageUrl = image
                    /\ IF Falsy(image)
                       THEN g.pc = "failed" /\ g.error = Wrapped(g.config, ExtractImageError)
                       ELSE g.error # Wrapped(g.config, ExtractImageError)

\* The call polled, and the image came from data[0].url, where the status
\* mapping points, not from where the generate mapping points.
C29_Witness ==
    /\ 1 \in DOMAIN generations
    /\ generations[1].op = "visual"
    /\ generations[1].config.name = "Async Image"
    /\ generations[1].pc = "done"
    /\ calls[1].polled /\ calls[1].statusRequests >= 1
    /\ generations[1].imageUrl = Str(<<"Q", "U", "J", "D">>)
    /\ generations[1].result = Str(<<"Q", "U", "J", "D">>)

\* No polling: the generate mapping's data[0].url is read; and a response
\* without the image fails the operation.
ImageFromGenerateReached ==
    /\ 1 \in DOMAIN generations
    /\ generations[1].op = "visual"
    /\ generations[1].config.name = "Sync Image"
    /\ ~calls[1].polled
    /\ generations[1].result = Str(<<"Q", "U", "J", "D">>)

ImageMissingReached ==
    /\ 1 \in DOMAIN generations
    /\ generations[1].op = "visual"
    /\ generations[1].config.name = "Async Image"
    /\ calls[1].pc = "done"
    /\ generations[1].imageUrl = Undefined
    /\ generations[1].error = Wrapped(generations[1].config, ExtractImageError)

(***************************************************************************)
(* Termination of a generic call (checked under SpecGateway)               *)
(*                                                                         *)
(* The claim assumes that a request that is out is answered (or rejected)  *)
(* and that a sleep that has begun ends: these are the three steps below.  *)
(* Termination is then two safety properties: a call that has not ended is *)
(* waiting for exactly one of these steps, and every step of a call lowers *)
(* Remaining, a natural number, so that no call takes more than            *)
(* 2 * MAX_ATTEMPTS + 1 steps.                                             *)
(***************************************************************************)
GenerateCompletes ==
    (\E resp \in GenerateResponses : GenerateResponded(1, resp))
        /\ UNCHANGED <<registryVars, payloadVars, extractVars, sceneVars>>
SleepCompletes == SleepElapsed(1) /\ UNCHANGED <<registryVars, payloadVars, extractVars, sceneVars>>
StatusCompletes ==
    (\E resp \in StatusResponses : StatusResponded(1, resp))
        /\ UNCHANGED <<registryVars, payloadVars, extractVars, sceneVars>>

\* The call has ended in exactly one way: a returned response, or an error,
\* the timeout being the error of a used-up attempt budget.
EndedOneWay(f) ==
    /\ f.pc = "done" => f.result # Undefined /\ f.error = Undefined
    /\ f.pc = "failed" => f.error # Undefined /\ f.result = Undefined
    /\ f.error = TimeoutError => f.i = MAX_ATTEMPTS

\* The steps a call can still take, at most: one answer to the generate
\* request, then a sleep and a status answer for each attempt left.
Remaining(f) ==
    CASE f.pc = "awaitGenerate" -> 2 * MAX_ATTEMPTS + 1
      [] f.pc = "sleeping" -> 2 * (MAX_ATTEMPTS - f.i)
      [] f.pc = "awaitStatus" -> 2 * (MAX_ATTEMPTS - f.i) - 1
      [] OTHER -> 0

\* What a call that has not ended waits for: the one step that moves it.
AwaitedStep(f) ==
    CASE f.pc = "awaitGenerate" -> ENABLED GenerateCompletes
      [] f.pc = "sleeping" -> ENABLED SleepCompletes
      [] f.pc = "awaitStatus" -> ENABLED StatusCompletes
      [] OTHER -> FALSE

\* C30: a generic call, once started, ends: it returns a response or fails
\* with an error, the timeout after the attempt budget among them, never
\* both. Until then it waits for a request or a sleep to complete and for
\* nothing else; each step it takes lowers the number of steps it has left,
\* so the poll loop cannot run forever; no call makes more than MAX_ATTEMPTS
\* turns of the loop, and an ended call does nothing more.
C30_EveryCallEnds ==
    /\ [](\A c \in DOMAIN calls :
              /\ EndedOneWay(calls[c])
              /\ calls[c].i <= MAX_ATTEMPTS
              /\ calls[c].pc \in {"done", "failed"} \/ AwaitedStep(calls[c]))
    /\ [][\A c \in DOMAIN calls :
              /\ Remaining(calls'[c]) <= Remaining(calls[c])
              /\ calls'[c].pc # calls[c].pc => Remaining(calls'[c]) < Remaining(calls[c])
              /\ calls[c].pc \in {"done", "failed"} =>
                  /\ calls'[c].pc = calls[c].pc
                  /\ calls'[c].generateRequests = calls[c].generateRequests
                  /\ calls'[c].statusRequests = calls[c].statusRequests
                  /\ calls'[c].sleeps = calls[c].sleeps]_vars

\* A provider that says pending to the end: the call ended in the timeout
\* after the 60th answer.
C30_Witness ==
    /\ 1 \in DOMAIN calls
    /\ calls[1].pc = "failed" /\ calls[1].error = TimeoutError
    /\ calls[1].last = Response(TRUE, 200, "status", Obj(sStatus :> Str(sPending)))
    /\ calls[1].i = MAX_ATTEMPTS /\ calls[1].statusRequests = MAX_ATTEMPTS

(***************************************************************************)
(* Interleaved calls (checked under SpecCredential)                        *)
(***************************************************************************)
\* a and b are the same value, either of them possibly undefined.
SameValue(a, b) ==
    IF a = Undefined \/ b = Undefined THEN a = Undefined /\ b = Undefined ELSE a = b

\* The call of frame f run alone, from a store that holds the credential f
\* read: started, given the generate response f was given, and then put
\* through as many sleeps and scripted status answers as f has had.
RECURSIVE PollAlone(_, _, _)
PollAlone(g, sleepsLeft, answersLeft) ==
    IF g.pc = "sleeping" /\ sleepsLeft > 0
    THEN PollAlone(AfterSleep(g), sleepsLeft - 1, answersLeft)
    ELSE IF g.pc = "awaitStatus" /\ answersLeft > 0
    THEN PollAlone(AfterStatus(g, ScriptedResponse(g.config, g.statusRequests)),
                   sleepsLeft, answersLeft - 1)
    ELSE g

Alone(f) ==
    LET store == IF f.apiKey = Null THEN <<>>
                 ELSE ("apikey_" \o f.config.provider) :> f.apiKey.v
        started == ExecuteToFetch(f.config, f.inputs, store)
        answered == IF f.pc = "awaitStatus" THEN f.statusRequests - 1
                    ELSE f.statusRequests
    IN  IF f.generated = Undefined THEN started
        ELSE PollAlone(AfterGenerate(started, f.generated), f.sleeps, answered)

\* The call's task id, status URL, headers, attempt count and outcome are
\* those of the call run alone.
SameAsAlone(f) ==
    LET a == Alone(f)
    IN  /\ f.pc = a.pc /\ f.i = a.i
        /\ f.sleeps = a.sleeps /\ f.statusRequests = a.statusRequests
        /\ SameValue(f.taskId, a.taskId)
        /\ SameValue(f.finalUrl, a.finalUrl)
        /\ SameValue(f.statusUrl, a.statusUrl)
        /\ SameValue(f.headers, a.headers)
        /\ SameValue(f.statusHeaders, a.statusHeaders)
        /\ SameValue(f.result, a.result)
        /\ SameValue(f.error, a.error)
        /\ f.returnedBy = a.returnedBy

\* Where a call stands and what it has counted.
Progress(f) == <<f.pc, f.i, f.generateRequests, f.statusRequests, f.sleeps>>

\* C31: calls that run interleaved do not interfere: every call is, at
\* every moment, what it would be had it run alone with its config, inputs,
\* credential and provider responses, and a step of one call (or a saved
\* credential) moves no other call.
C31_CallsDoNotInterfere ==
    /\ [](\A c \in DOMAIN calls : SameAsAlone(calls[c]))
    /\ [][\A c, d \in DOMAIN calls :
              (c # d /\ Progress(calls'[c]) # Progress(calls[c])) =>
                  Progress(calls'[d]) = Progress(calls[d])]_vars

\* Two polling loops suspended in their sleeps, of different configs and
\* at different attempts, while the stored credential has been replaced.
C31_Witness ==
    /\ DOMAIN calls = {1, 2}
    /\ calls[1].config.name = "Async" /\ calls[2].config.name = "Async Mapped"
    /\ calls[1].pc = "sleeping" /\ calls[2].pc = "sleeping"
    /\ calls[1].i = 2 /\ calls[2].i = 0
    /\ calls[1].apiKey = Str(<<"K">>)
    /\ "apikey_kie" \in DOMAIN localStorage /\ localStorage["apikey_kie"] = <<"K", "2">>

(***************************************************************************)
(* The store's apiKeys and the credentials the gateway reads (SpecKeys)    *)
(*                                                                         *)
(* updateApiKey at any moment before and after the start of a call of      *)
(* generateText, from every credential store of the other specifications.  *)
(***************************************************************************)
KeyStores == FacadeStores \cup CredentialStores
KeyProviders == {"google_native", "kie", "comfyui"}

InitKeys ==
    /\ IdleRegistryVars /\ IdlePayloadVars /\ IdleExtractVars /\ IdleSceneVars
    /\ calls = <<>>
    /\ generations = <<>>
    /\ localStorage \in KeyStores
    /\ apiKeys = InitialApiKeys(localStorage)

NextKeys ==
    \/ (\E provider \in KeyProviders, key \in SavedKeys : updateApiKey(provider, key))
          /\ UNCHANGED <<registryVars, payloadVars, extractVars, sceneVars>>
    \/ (\E prompt \in Prompts, config \in FacadeConfigs : generateText(1, prompt, config))
          /\ UNCHANGED <<registryVars, payloadVars, extractVars, sceneVars>>
    \/ (\E ok \in BOOLEAN : ImportSettled(1, ok))
          /\ UNCHANGED <<registryVars, payloadVars, extractVars, sceneVars>>

SpecKeys == InitKeys /\ [][NextKeys]_vars

\* The key the claim files a provider's credential under.
ClaimedKey(provider) ==
    IF provider = "google_native" THEN "gemini_api_key"
    ELSE "apikey_" \o provider

\* state.apiKeys[provider], '' standing for no entry.
ApiKeyEntry(provider) == IF provider \in DOMAIN apiKeys THEN apiKeys[provider] ELSE <<>>

\* The step saved a credential: it is filed under the claimed key, the
\* store's entry of the provider holds it, and nothing else has changed.
SavedWhereClaimed ==
    \E provider \in KeyProviders, key \in SavedKeys :
        /\ DOMAIN localStorage' = DOMAIN localStorage \cup {ClaimedKey(provider)}
        /\ localStorage'[ClaimedKey(provider)] = key
        /\ \A k \in DOMAIN localStorage \ {ClaimedKey(provider)} :
               localStorage'[k] = localStorage[k]
        /\ DOMAIN apiKeys' = DOMAIN apiKeys \cup {provider}
        /\ apiKeys'[provider] = key
        /\ \A p \in DOMAIN apiKeys \ {provider} : apiKeys'[p] = apiKeys[p]

\* The step is the gateway reading the credential of a provider in
\* Providers, and what it reads is not the store's entry of that provider.
ReadsOtherThanEntry(Providers) ==
    \/ /\ 1 \notin DOMAIN calls /\ 1 \in DOMAIN calls'
       /\ calls'[1].config.provider \in Providers
       /\ KeyOrEmpty(calls'[1].apiKey) # ApiKeyEntry(calls'[1].config.provider)
    \/ /\ 1 \in DOMAIN generations /\ generations[1].pc = "awaitImport"
       /\ \/ generations'[1].pc = "awaitNative"
          \/ generations'[1].pc = "failed" /\ generations'[1].error = KeyNotFound
       /\ "google_native" \in Providers
       /\ generations'[1].apiKey # ApiKeyEntry("google_native")

AllProviders == {config.provider : config \in FacadeConfigs}

\* C32 as stated: updateApiKey files the credential under gemini_api_key
\* for google_native and under apikey_<provider> otherwise and changes no
\* other stored credential, and the credential the gateway reads for a
\* provider is always the store's apiKeys[provider].
C32_ApiKeysMirrorStore ==
    [][/\ (localStorage' # localStorage \/ apiKeys' # apiKeys) => SavedWhereClaimed
       /\ ~ReadsOtherThanEntry(AllProviders)]_vars

\* C32, amended: the same, the agreement holding for the providers the
\* store's apiKeys has an entry for.
C32_ApiKeysMirrorEnteredProviders ==
    [][/\ (localStorage' # localStorage \/ apiKeys' # apiKeys) => SavedWhereClaimed
       /\ ~ReadsOtherThanEntry(DOMAIN apiKeys)]_vars

\* A native credential was saved over a stored one, the generic credential
\* of kie was left alone, and the native call has read the saved one.
C32_Witness ==
    /\ "gemini_api_key" \in DOMAIN localStorage
    /\ localStorage["gemini_api_key"] = <<"K", "2">>
    /\ "apikey_kie" \in DOMAIN localStorage /\ localStorage["apikey_kie"] = <<"K">>
    /\ apiKeys["google_native"] = <<"K", "2">> /\ apiKeys["kie"] = <<"K">>
    /\ 1 \in DOMAIN generations
    /\ generations[1].pc = "awaitNative" /\ generations[1].apiKey = <<"K", "2">>

\* A comfyui credential was saved and the generic call has read it.
SavedGenericKeyReadReached ==
    /\ "comfyui" \in DOMAIN apiKeys /\ apiKeys["comfyui"] = <<"K", "2">>
    /\ 1 \in DOMAIN calls /\ calls[1].config.provider = "comfyui"
    /\ calls[1].apiKey = Str(<<"K", "2">>)

\* The gateway has read a stored comfyui credential the store has no entry
\* for.
ReadWithoutEntryReached ==
    /\ 1 \in DOMAIN calls /\ calls[1].config.provider = "comfyui"
    /\ calls[1].apiKey = Str(<<"C", "2">>)
    /\ "comfyui" \notin DOMAIN apiKeys

(***************************************************************************)
(* More claims about the registry (checked under SpecRegistry)             *)
(***************************************************************************)
\* The registry is merged: availableModels is what fetchModels makes of
\* the last fetched list and customModels.
RegistryMerged ==
    /\ fetched # Undefined
    /\ availableModels = MergeModels(fetched.value, customModels)

\* C33: addCustomModel(model) on a merged registry leaves it merged:
\* availableModels is what fetchModels would make of the same fetched list
\* and the updated customModels; an entry that had model.id keeps its
\* position and holds model, and with a new id model is appended.
C33_AddAgreesWithMerge ==
    [][(lastOp' = "addCustomModel" /\ RegistryMerged) =>
          LET model == customModels'[Len(customModels')]
              k == findIndex(availableModels, model.id)
          IN  /\ availableModels' = MergeModels(fetched.value, customModels')
              /\ IF k # 0
                 THEN availableModels' = [availableModels EXCEPT ![k] = model]
                 ELSE availableModels' = Append(availableModels, model)]_vars

\* What holds of addCustomModel: model is the last entry, and the entries
\* of other ids keep their order.
AddMovesToEnd ==
    [][lastOp' = "addCustomModel" =>
          LET model == customModels'[Len(customModels')]
          IN  availableModels' = Append(WithoutId(availableModels, model.id), model)]_vars

\* The fallback list was fetched, and the custom model that overrides the
\* first built-in id stands last.
OverrideMovedReached ==
    /\ lastOp = "addCustomModel"
    /\ fetched = Returned(LOCAL_FALLBACK_MODELS)
    /\ Len(customModels) = 1 /\ customModels[1].id = "gemini-2.5-flash"
    /\ Len(availableModels) = Len(LOCAL_FALLBACK_MODELS)
    /\ availableModels[Len(availableModels)] = customModels[1]
    /\ availableModels[1] = LOCAL_FALLBACK_MODELS[2]

\* C34: the built-in fallback list is never changed: whatever fetchModels,
\* addCustomModel and removeCustomModel have done, merges in which a custom
\* model overrides a built-in id included, the array is as it was written,
\* and a fetch that fails yields the original definitions in their order.
C34_FallbackNeverChanges ==
    /\ fallbackModels = LOCAL_FALLBACK_MODELS
    /\ (lastOp = "fetchModels" /\ ~HasModelsArray(outcome)) =>
           fetched.value = LOCAL_FALLBACK_MODELS

\* A failing fetch was merged with a custom model that overrides the first
\* built-in id: the registry holds the custom definition in its place, the
\* fetch gave the built-in one.
C34_Witness ==
    /\ lastOp = "fetchModels" /\ outcome.fetch = "throws"
    /\ Len(customModels) = 1 /\ customModels[1].id = "gemini-2.5-flash"
    /\ availableModels[1] = customModels[1]
    /\ fetched.value[1] = LOCAL_FALLBACK_MODELS[1]
    /\ fetched.value[1] # availableModels[1]

\* The entries of list l that have the id.
WithId(l, id) == SelectSeq(l, LAMBDA m : m.id = id)

\* C35: a custom model that overrode a fetched definition has been removed
\* and not added since: customModels does not hold the id, and when a fetch
\* has completed, with a list that has the id, availableModels holds the
\* fetched definitions of that id, and no other entry of that id, again.
C35_RemovalRestoresDefault ==
    lastRemoved # "" =>
        /\ WithId(customModels, lastRemoved) = <<>>
        /\ lastOp = "removeCustomModel" => inflight > 0
        /\ lastOp = "fetchModels" =>
               WithId(availableModels, lastRemoved) = WithId(fetched.value, lastRemoved)

\* The override of the first built-in model was removed, the fetch that
\* followed has completed, and the built-in definition is back in its place.
C35_Witness ==
    /\ lastRemoved = "gemini-2.5-flash" /\ lastOp = "fetchModels"
    /\ inflight = 0
    /\ customModels = <<>>
    /\ availableModels = LOCAL_FALLBACK_MODELS

\* Between the removal and the end of the fetch the id is in neither list.
DefaultMissingReached ==
    /\ lastRemoved = "gemini-2.5-flash" /\ lastOp = "removeCustomModel"
    /\ fetched = Returned(LOCAL_FALLBACK_MODELS)
    /\ Len(availableModels) = Len(LOCAL_FALLBACK_MODELS) - 1

(***************************************************************************)
(* The scene list of one episode or act and its history                    *)
(* (src/store/showrunnerStore.ts, addHistoryEntry and addScene to          *)
(* redoSceneAction).  The model follows one item; a call that names        *)
(* another item returns this item as it is.                                *)
(***************************************************************************)
MaxInitialScenes == 2   \* longest scene list at start-up
MaxSceneCount == 3      \* longest scene list addScene makes
MaxSceneSteps == 5      \* scene operations in one behaviour of SpecScenes
MaxFree == 2            \* operations of any kind at the start of a long session

\* addHistoryEntry keeps this many entries
HISTORY_LIMIT == 30

\* the operations of a long session
SessionLength == MaxFree + HISTORY_LIMIT + 2

\* a scene as createScene makes it
Scene(id, n) == [id |-> id, sceneNumber |-> n, content |-> "", isContentLocked |-> FALSE]

createScene(currentScenes) == Scene(nextSceneId, Len(currentScenes) + 1)

\* scenes.map((s, i) => ({ ...s, sceneNumber: i + 1 }))
Renumbered(l) == [k \in 1..Len(l) |-> [l[k] EXCEPT !.sceneNumber = k]]

\* JSON.parse(JSON.stringify(scenes)): a new array of new objects carrying
\* the fields JSON keeps
JsonCopy(l) ==
    [k \in 1..Len(l) |->
        [id |-> l[k].id, sceneNumber |-> l[k].sceneNumber,
         content |-> l[k].content, isContentLocked |-> l[k].isContentLocked]]

FirstEntries(l, n) == SubSeq(l, 1, IF Len(l) < n THEN Len(l) ELSE n)

addHistoryEntry(history, actionType, snapshotOf) ==
    FirstEntries(<<[actionType |-> actionType, snapshot |-> JsonCopy(snapshotOf)]>>
                     \o history,
                 HISTORY_LIMIT)

\* the scene lists an item starts with: scenes 1..n in order, nothing recorded
InitialSceneLists ==
    {[k \in 1..n |-> Scene(k, k)] : n \in 0..MaxInitialScenes}

\* every order of the list l (what a drag in the scene list can hand over)
Reorderings(l) ==
    {[k \in 1..Len(l) |-> l[p[k]]] : p \in Permutations(1..Len(l))}

\* the list l back to front
BackToFront(l) == [k \in 1..Len(l) |-> l[Len(l) + 1 - k]]

SceneIds(l) == {l[k].id : k \in 1..Len(l)}

\* bookkeeping of every scene operation: op is its name, acted tells whether
\* it got past its early returns
Trailed(op, acted) ==
    trail' = FirstEntries(<<[op |-> op, acted |-> acted, before |-> scenes]>> \o trail, 2)

Stepped(op, acted) == Trailed(op, acted) /\ sceneSteps' = sceneSteps + 1

\* addScene leaving the redo stack as it finds it
addSceneKeepingRedo ==
    /\ sceneHistory' = addHistoryEntry(sceneHistory, "add", scenes)
    /\ scenes' = Append(scenes, createScene(scenes))
    /\ nextSceneId' = nextSceneId + 1
    /\ Stepped("addScene", TRUE)
    /\ UNCHANGED <<sceneRedoStack, initialScenes, writing>>
addScene ==
    /\ sceneHistory' = addHistoryEntry(sceneHistory, "add", scenes)
    /\ scenes' = Append(scenes, createScene(scenes))
    /\ sceneRedoStack' = <<>>
    /\ nextSceneId' = nextSceneId + 1
    /\ Stepped("addScene", TRUE)
    /\ UNCHANGED <<initialScenes, writing>>

deleteScene(sceneId) ==
    /\ sceneHistory' = addHistoryEntry(sceneHistory, "delete", scenes)
    /\ scenes' = Renumbered(SelectSeq(scenes, LAMBDA s : s.id # sceneId))
    /\ sceneRedoStack' = <<>>
    /\ Stepped("deleteScene", TRUE)
    /\ UNCHANGED <<nextSceneId, initialScenes, writing>>

reorderScenes(newScenes) ==
    /\ sceneHistory' = addHistoryEntry(sceneHistory, "reorder", scenes)
    /\ scenes' = Renumbered(newScenes)
    /\ sceneRedoStack' = <<>>
    /\ Stepped("reorderScenes", TRUE)
    /\ UNCHANGED <<nextSceneId, initialScenes, writing>>

\* historyId is given as the place of the entry it names, 0 when no entry has it
revertSceneHistory(historyId) ==
    /\ IF historyId \notin 1..Len(sceneHistory)
       THEN /\ UNCHANGED <<scenes, sceneHistory, sceneRedoStack>>
            /\ Stepped("revertSceneHistory", FALSE)
       ELSE /\ sceneHistory' = addHistoryEntry(sceneHistory, "reorder", scenes)
            /\ scenes' = sceneHistory[historyId].snapshot
            /\ sceneRedoStack' = <<>>
            /\ Stepped("revertSceneHistory", TRUE)
    /\ UNCHANGED <<nextSceneId, initialScenes, writing>>

revertToInitial ==
    /\ IF sceneHistory = <<>>
       THEN /\ UNCHANGED <<scenes, sceneHistory, sceneRedoStack>>
            /\ Stepped("revertToInitial", FALSE)
       ELSE /\ sceneHistory' = addHistoryEntry(sceneHistory, "reorder", scenes)
            /\ scenes' = sceneHistory[Len(sceneHistory)].snapshot
            /\ sceneRedoStack' = <<>>
            /\ Stepped("revertToInitial", TRUE)
    /\ UNCHANGED <<nextSceneId, initialScenes, writing>>

\* undoSceneAction putting the restored snapshot, not the current list, on
\* the redo stack
undoSceneActionStoresRestored ==
    /\ IF sceneHistory = <<>>
       THEN /\ UNCHANGED <<scenes, sceneHistory, sceneRedoStack>>
            /\ Stepped("undoSceneAction", FALSE)
       ELSE /\ scenes' = Head(sceneHistory).snapshot
            /\ sceneHistory' = Tail(sceneHistory)
            /\ sceneRedoStack' =
                   <<[actionType |-> Head(sceneHistory).actionType,
                      snapshot |-> Head(sceneHistory).snapshot]>>
                       \o sceneRedoStack
            /\ Stepped("undoSceneAction", TRUE)
    /\ UNCHANGED <<nextSceneId, initialScenes, writing>>
undoSceneAction ==
    /\ IF sceneHistory = <<>>
       THEN /\ UNCHANGED <<scenes, sceneHistory, sceneRedoStack>>
            /\ Stepped("undoSceneAction", FALSE)
       ELSE /\ scenes' = Head(sceneHistory).snapshot
            /\ sceneHistory' = Tail(sceneHistory)
            /\ sceneRedoStack' =
                   <<[actionType |-> Head(sceneHistory).actionType, snapshot |-> scenes]>>
                       \o sceneRedoStack
            /\ Stepped("undoSceneAction", TRUE)
    /\ UNCHANGED <<nextSceneId, initialScenes, writing>>

redoSceneAction ==
    /\ IF sceneRedoStack = <<>>
       THEN /\ UNCHANGED <<scenes, sceneHistory, sceneRedoStack>>
            /\ Stepped("redoSceneAction", FALSE)
       ELSE /\ scenes' = Head(sceneRedoStack).snapshot
            /\ sceneHistory' = <<[actionType |-> "reorder", snapshot |-> scenes]>> \o sceneHistory
            /\ sceneRedoStack' = Tail(sceneRedoStack)
            /\ Stepped("redoSceneAction", TRUE)
    /\ UNCHANGED <<nextSceneId, initialScenes, writing>>

InitSceneVars ==
    /\ scenes \in InitialSceneLists
    /\ initialScenes = scenes
    /\ nextSceneId = Len(scenes) + 1
    /\ sceneHistory = <<>> /\ sceneRedoStack = <<>>
    /\ trail = <<>> /\ sceneSteps = 0 /\ writing = IdleWriting

InitScenes ==
    IdleRegistryVars /\ IdlePayloadVars /\ IdleGatewayVars /\ IdleExtractVars /\ InitSceneVars

InSession == sceneSteps < MaxSceneSteps

NextScenes ==
    \/ InSession /\ Len(scenes) < MaxSceneCount /\ addScene
          /\ UNCHANGED <<registryVars, payloadVars, gatewayVars, extractVars>>
    \/ InSession /\ (\E sceneId \in SceneIds(scenes) \cup {0} : deleteScene(sceneId))
          /\ UNCHANGED <<registryVars, payloadVars, gatewayVars, extractVars>>
    \/ InSession /\ (\E newScenes \in Reorderings(scenes) : reorderScenes(newScenes))
          /\ UNCHANGED <<registryVars, payloadVars, gatewayVars, extractVars>>
    \/ InSession /\ (\E historyId \in 0..Len(sceneHistory) : revertSceneHistory(historyId))
          /\ UNCHANGED <<registryVars, payloadVars, gatewayVars, extractVars>>
    \/ InSession /\ revertToInitial
          /\ UNCHANGED <<registryVars, payloadVars, gatewayVars, extractVars>>
    \/ InSession /\ undoSceneAction
          /\ UNCHANGED <<registryVars, payloadVars, gatewayVars, extractVars>>
    \/ InSession /\ redoSceneAction
          /\ UNCHANGED <<registryVars, payloadVars, gatewayVars, extractVars>>

SpecScenes == InitScenes /\ [][NextScenes]_vars

\* A long session: anything for the first MaxFree operations, then the list
\* is turned back to front again and again, and last of all comes Revert All.
Free == sceneSteps < MaxFree

NextLongSession ==
    \/ Free /\ Len(scenes) < MaxSceneCount /\ addScene
          /\ UNCHANGED <<registryVars, payloadVars, gatewayVars, extractVars>>
    \/ Free /\ (\E sceneId \in SceneIds(scenes) \cup {0} : deleteScene(sceneId))
          /\ UNCHANGED <<registryVars, payloadVars, gatewayVars, extractVars>>
    \/ Free /\ (\E historyId \in 0..Len(sceneHistory) : revertSceneHistory(historyId))
          /\ UNCHANGED <<registryVars, payloadVars, gatewayVars, extractVars>>
    \/ Free /\ undoSceneAction
          /\ UNCHANGED <<registryVars, payloadVars, gatewayVars, extractVars>>
    \/ Free /\ redoSceneAction
          /\ UNCHANGED <<registryVars, payloadVars, gatewayVars, extractVars>>
    \/ sceneSteps < SessionLength - 1 /\ reorderScenes(BackToFront(scenes))
          /\ UNCHANGED <<registryVars, payloadVars, gatewayVars, extractVars>>
    \/ sceneSteps = SessionLength - 1 /\ revertToInitial
          /\ UNCHANGED <<registryVars, payloadVars, gatewayVars, extractVars>>

SpecLongSession == InitScenes /\ [][NextLongSession]_vars

(***************************************************************************)
(* Claims about the scene history (checked under SpecScenes)               *)
(***************************************************************************)
\* the step being taken is the scene operation op
SceneStep(op) ==
    sceneSteps' = sceneSteps + 1 /\ trail' # <<>> /\ trail'[1].op = op

\* the operations that record the list they find in the history
RecordingOps ==
    {"addScene", "deleteScene", "reorderScenes", "revertSceneHistory",
     "revertToInitial", "redoSceneAction"}

\* the last operation recorded the list it found
JustRecorded ==
    trail # <<>> /\ trail[1].acted /\ trail[1].op \in RecordingOps

\* the last operation was an undo that found a history entry
JustUndone ==
    trail # <<>> /\ trail[1].acted /\ trail[1].op = "undoSceneAction"

\* C36: with a non-empty history, undoSceneAction sets the scene list to the
\* snapshot at the head of the history, which after a recorded action is the
\* list that action found; a redoSceneAction that follows an undo at once
\* sets the list to what it was before the undo; undoSceneAction with an
\* empty history and redoSceneAction with an empty redo stack change nothing.
C36_UndoRedoRoundTrip ==
    /\ [][(SceneStep("undoSceneAction") /\ sceneHistory # <<>>) =>
              /\ scenes' = Head(sceneHistory).snapshot
              /\ JustRecorded => scenes' = trail[1].before]_vars
    /\ [][(SceneStep("redoSceneAction") /\ JustUndone) =>
              scenes' = trail[1].before]_vars
    /\ [][(\/ SceneStep("undoSceneAction") /\ sceneHistory = <<>>
           \/ SceneStep("redoSceneAction") /\ sceneRedoStack = <<>>) =>
              UNCHANGED <<scenes, sceneHistory, sceneRedoStack>>]_vars

\* an undo changed a list of two scenes and the redo after it brought the
\* list back
C36_Witness ==
    /\ Len(trail) = 2
    /\ trail[1].op = "redoSceneAction" /\ trail[1].acted
    /\ trail[2].op = "undoSceneAction" /\ trail[2].acted
    /\ Len(scenes) = 2
    /\ scenes = trail[2].before
    /\ scenes # trail[1].before

\* the new scene-list actions
NewActions ==
    {"addScene", "deleteScene", "reorderScenes", "revertSceneHistory", "revertToInitial"}

\* the step being taken is a new action that got past its early returns
NewActionStep ==
    sceneSteps' = sceneSteps + 1 /\ trail' # <<>>
        /\ trail'[1].acted /\ trail'[1].op \in NewActions

\* the step being taken changes the item
ItemChanged ==
    scenes' # scenes \/ sceneHistory' # sceneHistory \/ sceneRedoStack' # sceneRedoStack

\* every new action empties the redo stack, and a redoSceneAction right
\* after a new action changes nothing
NewActionsClearRedo ==
    /\ [][NewActionStep => sceneRedoStack' = <<>>]_vars
    /\ [][(SceneStep("redoSceneAction") /\ trail # <<>> /\ trail[1].acted
              /\ trail[1].op \in NewActions) =>
              UNCHANGED <<scenes, sceneHistory, sceneRedoStack>>]_vars

\* C37: every new action empties the redo stack, so redoSceneAction re-applies
\* nothing undone before it, and an operation that changes the item leaves a
\* non-empty redo stack behind only if it is an undo.
C37_RedoStackOnlyAfterUndo ==
    /\ NewActionsClearRedo
    /\ [][(ItemChanged /\ sceneRedoStack' # <<>>) => SceneStep("undoSceneAction")]_vars

\* C37, amended: every new action empties the redo stack, so redoSceneAction
\* re-applies nothing undone before it, and an operation that changes the
\* item leaves a non-empty redo stack behind only if it is an undo or a redo.
C37_RedoStackOnlyAfterUndoOrRedo ==
    /\ NewActionsClearRedo
    /\ [][(ItemChanged /\ sceneRedoStack' # <<>>) =>
              SceneStep("undoSceneAction") \/ SceneStep("redoSceneAction")]_vars

\* a scene was added right after an undo that had filled the redo stack, and
\* the stack is empty
C37_Witness ==
    /\ Len(trail) = 2
    /\ trail[1].op = "addScene"
    /\ trail[2].op = "undoSceneAction" /\ trail[2].acted
    /\ sceneRedoStack = <<>>
    /\ sceneHistory # <<>>

\* a redo has been made and another one is still to be had
RedoLeftMoreReached ==
    /\ trail # <<>> /\ trail[1].op = "redoSceneAction" /\ trail[1].acted
    /\ sceneRedoStack # <<>>

(***************************************************************************)
(* Revert All (checked under SpecLongSession)                              *)
(***************************************************************************)
\* C38: after any sequence of scene operations, revertToInitial sets the
\* scene list to what it was before the first recorded action.
C38_RevertToInitialRestoresInitial ==
    (trail # <<>> /\ trail[1].op = "revertToInitial") => scenes = initialScenes

\* the history is full and its oldest snapshot is no longer the initial list
InitialSnapshotDroppedReached ==
    /\ Len(sceneHistory) = HISTORY_LIMIT
    /\ sceneHistory[HISTORY_LIMIT].snapshot # initialScenes

\* Revert All has acted on a full history and the list is not the initial one
RevertedToLaterListReached ==
    /\ trail # <<>> /\ trail[1].op = "revertToInitial" /\ trail[1].acted
    /\ Len(sceneHistory) = HISTORY_LIMIT
    /\ scenes # initialScenes

(***************************************************************************)
(* Write All and the content lock (src/pages/Scriptwriter.tsx,             *)
(* handleWriteAllScenes; src/store/showrunnerStore.ts,                     *)
(* toggleSceneContentLock and setAllScreenplaysForItem)                    *)
(***************************************************************************)
\* what a scene's content can be: nothing, an earlier screenplay, or the one
\* generateScreenplayForScene returns
Screenplays == {"draft"}
Contents == {"", "old"} \cup Screenplays

\* the scene lists Write All can find: a scene is unwritten, written, or
\* written and locked (the lock button shows for written scenes only)
WritableSceneLists ==
    {l \in UNION {[1..n -> [id : 1..n, sceneNumber : 1..n, content : {"", "old"},
                            isContentLocked : BOOLEAN]] : n \in 0..MaxInitialScenes} :
        \A k \in 1..Len(l) :
            /\ l[k].id = k /\ l[k].sceneNumber = k
            /\ l[k].isContentLocked => l[k].content # ""}

toggleSceneContentLock(sceneId) ==
    /\ scenes' = [k \in 1..Len(scenes) |->
                     IF scenes[k].id = sceneId
                     THEN [scenes[k] EXCEPT !.isContentLocked = ~scenes[k].isContentLocked]
                     ELSE scenes[k]]
    /\ Stepped("toggleSceneContentLock", TRUE)
    /\ UNCHANGED <<sceneHistory, sceneRedoStack, nextSceneId, initialScenes, writing>>

\* result.scenes.find(r => r.sceneId === id), Undefined when there is none
FirstMatch(result, id) ==
    IF \E j \in 1..Len(result) : result[j].sceneId = id
    THEN result[CHOOSE j \in 1..Len(result) :
                    /\ result[j].sceneId = id
                    /\ \A h \in 1..(j - 1) : result[h].sceneId # id]
    ELSE Undefined

setAllScreenplaysForItem(result) ==
    /\ scenes' = [k \in 1..Len(scenes) |->
                     IF FirstMatch(result, scenes[k].id) # Undefined
                     THEN [scenes[k] EXCEPT
                               !.content = FirstMatch(result, scenes[k].id).screenplay]
                     ELSE scenes[k]]
    /\ Trailed("setAllScreenplaysForItem", TRUE)

\* the handler up to its first await: the unlocked scenes are picked once
handleWriteAllScenes ==
    /\ writing.pc = "idle"
    /\ LET scenesToWrite == SelectSeq(scenes, LAMBDA s : ~s.isContentLocked)
       IN  writing' =
               IF scenesToWrite = <<>>
               THEN [IdleWriting EXCEPT !.pc = "done"]
               ELSE [pc |-> "awaitScreenplay", scenesToWrite |-> scenesToWrite,
                     i |-> 1, writingError |-> ""]
    /\ UNCHANGED <<scenes, sceneHistory, sceneRedoStack, nextSceneId, initialScenes,
                   trail, sceneSteps>>

\* generateScreenplayForScene resolves: the store is updated and the delay starts
ScreenplayReturned(screenplay) ==
    /\ writing.pc = "awaitScreenplay"
    /\ setAllScreenplaysForItem(
           <<[sceneId |-> writing.scenesToWrite[writing.i].id, screenplay |-> screenplay]>>)
    /\ writing' = [writing EXCEPT !.pc = "delay"]
    /\ UNCHANGED <<sceneHistory, sceneRedoStack, nextSceneId, initialScenes, sceneSteps>>

\* generateScreenplayForScene rejects: catch and finally
ScreenplayFailed ==
    /\ writing.pc = "awaitScreenplay"
    /\ writing' = [writing EXCEPT !.pc = "done", !.writingError = "err.message"]
    /\ UNCHANGED <<scenes, sceneHistory, sceneRedoStack, nextSceneId, initialScenes,
                   trail, sceneSteps>>

\* delay(500) is over: the next scene of scenesToWrite, or the end of the loop
DelayElapsed ==
    /\ writing.pc = "delay"
    /\ writing' =
           IF writing.i < Len(writing.scenesToWrite)
           THEN [writing EXCEPT !.pc = "awaitScreenplay", !.i = writing.i + 1]
           ELSE [writing EXCEPT !.pc = "done"]
    /\ UNCHANGED <<scenes, sceneHistory, sceneRedoStack, nextSceneId, initialScenes,
                   trail, sceneSteps>>

InitWriteAll ==
    /\ IdleRegistryVars /\ IdlePayloadVars /\ IdleGatewayVars /\ IdleExtractVars
    /\ scenes \in WritableSceneLists
    /\ initialScenes = scenes
    /\ nextSceneId = Len(scenes) + 1
    /\ sceneHistory = <<>> /\ sceneRedoStack = <<>>
    /\ trail = <<>> /\ sceneSteps = 0 /\ writing = IdleWriting

\* the scenes whose lock button is shown
WrittenIds == {scenes[k].id : k \in {j \in 1..Len(scenes) : scenes[j].content # ""}}

NextWriteAll ==
    \/ handleWriteAllScenes
          /\ UNCHANGED <<registryVars, payloadVars, gatewayVars, extractVars>>
    \/ (\E screenplay \in Screenplays : ScreenplayReturned(screenplay))
          /\ UNCHANGED <<registryVars, payloadVars, gatewayVars, extractVars>>
    \/ ScreenplayFailed
          /\ UNCHANGED <<registryVars, payloadVars, gatewayVars, extractVars>>
    \/ DelayElapsed
          /\ UNCHANGED <<registryVars, payloadVars, gatewayVars, extractVars>>
    \/ InSession /\ (\E sceneId \in WrittenIds : toggleSceneContentLock(sceneId))
          /\ UNCHANGED <<registryVars, payloadVars, gatewayVars, extractVars>>

SpecWriteAll == InitWriteAll /\ [][NextWriteAll]_vars

\* C39: a write of setAllScreenplaysForItem made by Write All leaves the
\* content of every scene that was locked when the write was made as it was.
C39_LockedSceneNeverRewritten ==
    (trail # <<>> /\ trail[1].op = "setAllScreenplaysForItem") =>
        \A k \in 1..Len(scenes) :
            trail[1].before[k].isContentLocked =>
                scenes[k].content = trail[1].before[k].content

\* Write All has just replaced the screenplay of a scene that was locked
LockedSceneRewrittenReached ==
    /\ trail # <<>> /\ trail[1].op = "setAllScreenplaysForItem"
    /\ \E k \in 1..Len(scenes) :
           /\ trail[1].before[k].isContentLocked /\ scenes[k].isContentLocked
           /\ trail[1].before[k].content = "old" /\ scenes[k].content = "draft"

\* Write All hands to setAllScreenplaysForItem only scenes that were unlocked
\* when it started.
PickedScenesWereUnlocked ==
    \A j \in 1..Len(writing.scenesToWrite) : ~writing.scenesToWrite[j].isContentLocked

=============================================================================
